---- MODULE Spec2Model ----
(***************************************************************************)
(* Model of the craps engine of the program: the CrapsGame singleton, the  *)
(* per-player CrapsPosition, and the instructions place_craps_bet,         *)
(* settle_craps, claim_craps_winnings, claim_craps_debt, force_settle and  *)
(* fund_craps_house (src/program/src/craps, src/api/src/state).            *)
(*                                                                         *)
(* A rejected instruction aborts its transaction: the runtime rolls every  *)
(* account back, so a handler is a function from the accounts and its      *)
(* arguments to a result code and the accounts it would commit, and the    *)
(* state changes only when the code returns Ok.                            *)
(***************************************************************************)
EXTENDS Integers, Sequences, FiniteSets, TLC

\* ------------------------------------------------------------------------
\* Bounds of the model
\* ------------------------------------------------------------------------
\* Number of players (each has one CrapsPosition PDA).
NumPlayers == 2
\* Number of rounds that are finalized during a run (round ids 0..MaxRounds-1).
MaxRounds == 2
\* Largest slot the clock reaches.
MaxSlot == 1
\* Number of place_craps_bet calls that succeed during a run.
MaxBets == 2
\* The same where only funding, placing and settling are run.
MaxAccumBets == 3
\* Number of fund_craps_house calls that succeed during a run.
MaxFunds == 2
\* Token units per SOL (the source counts lamports; the model counts units).
LAMPORTS_PER_SOL == 1
\* Largest value of an unsigned 64-bit field, scaled to the model's amounts.
U64_MAX == 1000000

\* ------------------------------------------------------------------------
\* Program constants (src/api/src/consts.rs)
\* ------------------------------------------------------------------------
BOARD_SIZE == 36
PASS_LINE_PAYOUT_NUM == 1
PASS_LINE_PAYOUT_DEN == 1
FIELD_PAYOUT_NORMAL_NUM == 1
FIELD_PAYOUT_NORMAL_DEN == 1
FIELD_PAYOUT_2_12_NUM == 2
FIELD_PAYOUT_2_12_DEN == 1
ANY_SEVEN_PAYOUT_NUM == 4
ANY_SEVEN_PAYOUT_DEN == 1
ANY_CRAPS_PAYOUT_NUM == 7
ANY_CRAPS_PAYOUT_DEN == 1
YO_ELEVEN_PAYOUT_NUM == 15
YO_ELEVEN_PAYOUT_DEN == 1
ACES_PAYOUT_NUM == 30
ACES_PAYOUT_DEN == 1
TWELVE_PAYOUT_NUM == 30
TWELVE_PAYOUT_DEN == 1
PLACE_4_10_PAYOUT_NUM == 9
PLACE_4_10_PAYOUT_DEN == 5
PLACE_5_9_PAYOUT_NUM == 7
PLACE_5_9_PAYOUT_DEN == 5
PLACE_6_8_PAYOUT_NUM == 7
PLACE_6_8_PAYOUT_DEN == 6
TRUE_ODDS_4_10_NUM == 2
TRUE_ODDS_4_10_DEN == 1
TRUE_ODDS_5_9_NUM == 3
TRUE_ODDS_5_9_DEN == 2
TRUE_ODDS_6_8_NUM == 6
TRUE_ODDS_6_8_DEN == 5
HARD_4_10_PAYOUT_NUM == 7
HARD_4_10_PAYOUT_DEN == 1
HARD_6_8_PAYOUT_NUM == 9
HARD_6_8_PAYOUT_DEN == 1
BONUS_SMALL_PAYOUT_NUM == 30
BONUS_SMALL_PAYOUT_DEN == 1
BONUS_TALL_PAYOUT_NUM == 30
BONUS_TALL_PAYOUT_DEN == 1
BONUS_ALL_PAYOUT_NUM == 150
BONUS_ALL_PAYOUT_DEN == 1
FIRE_4_POINTS_PAYOUT_NUM == 24
FIRE_4_POINTS_PAYOUT_DEN == 1
FIRE_5_POINTS_PAYOUT_NUM == 249
FIRE_5_POINTS_PAYOUT_DEN == 1
FIRE_6_POINTS_PAYOUT_NUM == 999
FIRE_6_POINTS_PAYOUT_DEN == 1
FIELDERS_1_PAYOUT_NUM == 4
FIELDERS_1_PAYOUT_DEN == 1
FIELDERS_2_PAYOUT_NUM == 2
FIELDERS_2_PAYOUT_DEN == 1
FIELDERS_3_PAYOUT_NUM == 4
FIELDERS_3_PAYOUT_DEN == 1
DIFF_DOUBLES_3_PAYOUT_NUM == 4
DIFF_DOUBLES_3_PAYOUT_DEN == 1
DIFF_DOUBLES_4_PAYOUT_NUM == 8
DIFF_DOUBLES_4_PAYOUT_DEN == 1
DIFF_DOUBLES_5_PAYOUT_NUM == 15
DIFF_DOUBLES_5_PAYOUT_DEN == 1
DIFF_DOUBLES_6_PAYOUT_NUM == 100
DIFF_DOUBLES_6_PAYOUT_DEN == 1
RIDE_3_WINS_PAYOUT_NUM == 2
RIDE_3_WINS_PAYOUT_DEN == 1
RIDE_4_WINS_PAYOUT_NUM == 3
RIDE_4_WINS_PAYOUT_DEN == 1
RIDE_5_WINS_PAYOUT_NUM == 5
RIDE_5_WINS_PAYOUT_DEN == 1
RIDE_6_WINS_PAYOUT_NUM == 8
RIDE_6_WINS_PAYOUT_DEN == 1
RIDE_7_WINS_PAYOUT_NUM == 10
RIDE_7_WINS_PAYOUT_DEN == 1
RIDE_8_WINS_PAYOUT_NUM == 15
RIDE_8_WINS_PAYOUT_DEN == 1
RIDE_9_WINS_PAYOUT_NUM == 25
RIDE_9_WINS_PAYOUT_DEN == 1
RIDE_10_WINS_PAYOUT_NUM == 40
RIDE_10_WINS_PAYOUT_DEN == 1
RIDE_11_WINS_PAYOUT_NUM == 150
RIDE_11_WINS_PAYOUT_DEN == 1
MUGSY_COMEOUT_7_PAYOUT_NUM == 2
MUGSY_COMEOUT_7_PAYOUT_DEN == 1
MUGSY_POINT_7_PAYOUT_NUM == 3
MUGSY_POINT_7_PAYOUT_DEN == 1
HOT_HAND_9_PAYOUT_NUM == 20
HOT_HAND_9_PAYOUT_DEN == 1
HOT_HAND_10_PAYOUT_NUM == 80
HOT_HAND_10_PAYOUT_DEN == 1
REPLAY_4_10_3X_PAYOUT_NUM == 120
REPLAY_4_10_3X_PAYOUT_DEN == 1
REPLAY_4_10_4X_PAYOUT_NUM == 1000
REPLAY_4_10_4X_PAYOUT_DEN == 1
REPLAY_5_9_3X_PAYOUT_NUM == 95
REPLAY_5_9_3X_PAYOUT_DEN == 1
REPLAY_5_9_4X_PAYOUT_NUM == 500
REPLAY_5_9_4X_PAYOUT_DEN == 1
REPLAY_6_8_3X_PAYOUT_NUM == 70
REPLAY_6_8_3X_PAYOUT_DEN == 1
REPLAY_6_8_4X_PAYOUT_NUM == 100
REPLAY_6_8_4X_PAYOUT_DEN == 1
HOP_2_PAYOUT_NUM == 35
HOP_2_PAYOUT_DEN == 1
HOP_3_PAYOUT_NUM == 17
HOP_3_PAYOUT_DEN == 1
HOP_4_PAYOUT_NUM == 11
HOP_4_PAYOUT_DEN == 1
HOP_5_PAYOUT_NUM == 8
HOP_5_PAYOUT_DEN == 1
HOP_6_PAYOUT_NUM == 31
HOP_6_PAYOUT_DEN == 5
HOP_7_PAYOUT_NUM == 5
HOP_7_PAYOUT_DEN == 1
HOP_8_PAYOUT_NUM == 31
HOP_8_PAYOUT_DEN == 5
HOP_9_PAYOUT_NUM == 8
HOP_9_PAYOUT_DEN == 1
HOP_10_PAYOUT_NUM == 11
HOP_10_PAYOUT_DEN == 1
HOP_11_PAYOUT_NUM == 17
HOP_11_PAYOUT_DEN == 1
HOP_12_PAYOUT_NUM == 35
HOP_12_PAYOUT_DEN == 1
YES_2_PAYOUT_NUM == 6
YES_2_PAYOUT_DEN == 1
YES_3_PAYOUT_NUM == 3
YES_3_PAYOUT_DEN == 1
YES_4_PAYOUT_NUM == 2
YES_4_PAYOUT_DEN == 1
YES_5_PAYOUT_NUM == 3
YES_5_PAYOUT_DEN == 2
YES_6_PAYOUT_NUM == 6
YES_6_PAYOUT_DEN == 5
YES_8_PAYOUT_NUM == 6
YES_8_PAYOUT_DEN == 5
YES_9_PAYOUT_NUM == 3
YES_9_PAYOUT_DEN == 2
YES_10_PAYOUT_NUM == 2
YES_10_PAYOUT_DEN == 1
YES_11_PAYOUT_NUM == 3
YES_11_PAYOUT_DEN == 1
YES_12_PAYOUT_NUM == 6
YES_12_PAYOUT_DEN == 1
NO_2_PAYOUT_NUM == 1
NO_2_PAYOUT_DEN == 6
NO_3_PAYOUT_NUM == 1
NO_3_PAYOUT_DEN == 3
NO_4_PAYOUT_NUM == 1
NO_4_PAYOUT_DEN == 2
NO_5_PAYOUT_NUM == 2
NO_5_PAYOUT_DEN == 3
NO_6_PAYOUT_NUM == 5
NO_6_PAYOUT_DEN == 6
NO_8_PAYOUT_NUM == 5
NO_8_PAYOUT_DEN == 6
NO_9_PAYOUT_NUM == 2
NO_9_PAYOUT_DEN == 3
NO_10_PAYOUT_NUM == 1
NO_10_PAYOUT_DEN == 2
NO_11_PAYOUT_NUM == 1
NO_11_PAYOUT_DEN == 3
NO_12_PAYOUT_NUM == 1
NO_12_PAYOUT_DEN == 6
NUM_POINTS == 6
NUM_HARDWAYS == 4
MAX_BET_AMOUNT == 100 * LAMPORTS_PER_SOL

\* ------------------------------------------------------------------------
\* u64 arithmetic.  None stands for the None of a checked operation.
\* ------------------------------------------------------------------------
None == 0 - 1

checked_add(a, b) == IF a + b > U64_MAX THEN None ELSE a + b

checked_sub(a, b) == IF a < b THEN None ELSE a - b

checked_mul(a, b) == IF a * b > U64_MAX THEN None ELSE a * b

saturating_add(a, b) == IF a + b > U64_MAX THEN U64_MAX ELSE a + b

saturating_sub(a, b) == IF a < b THEN 0 ELSE a - b

saturating_mul(a, b) == IF a * b > U64_MAX THEN U64_MAX ELSE a * b

Max(a, b) == IF a >= b THEN a ELSE b

\* ------------------------------------------------------------------------
\* Dice helpers (src/program/src/craps/utils.rs)
\* ------------------------------------------------------------------------
square_to_dice_sum(square) ==
    IF square >= BOARD_SIZE THEN 0
    ELSE ((square \div 6) + 1) + ((square % 6) + 1)

square_to_dice(square) == <<(square \div 6) + 1, (square % 6) + 1>>

\* A hardway test on the first column of the board instead of its diagonal.
is_hardway_by_column(square) == square < BOARD_SIZE /\ square % 6 = 0

is_hardway(square) == square < BOARD_SIZE /\ square % 7 = 0

is_craps(sum) == sum = 2 \/ sum = 3 \/ sum = 12

\* A natural that leaves out the 11.
is_natural_seven_only(sum) == sum = 7

is_natural(sum) == sum = 7 \/ sum = 11

is_point_number(sum) == sum \in {4, 5, 6, 8, 9, 10}

is_field_winner(sum) == sum \in {2, 3, 4, 9, 10, 11, 12}

hardway_loses(square, hardway_num) ==
    LET sum == square_to_dice_sum(square)
    IN  IF sum = 7 THEN TRUE
        ELSE IF sum = hardway_num /\ ~is_hardway(square) THEN TRUE
        ELSE FALSE

\* Option<usize>: None when the point is not a point number.
point_to_index(point) ==
    CASE point = 4 -> 0
      [] point = 5 -> 1
      [] point = 6 -> 2
      [] point = 8 -> 3
      [] point = 9 -> 4
      [] point = 10 -> 5
      [] OTHER -> None

index_to_point(index) ==
    CASE index = 0 -> 4
      [] index = 1 -> 5
      [] index = 2 -> 6
      [] index = 3 -> 8
      [] index = 4 -> 9
      [] index = 5 -> 10
      [] OTHER -> None

sum_to_index(sum) == IF sum >= 2 /\ sum <= 12 THEN sum - 2 ELSE None

is_valid_yes_no_sum(sum) == sum >= 2 /\ sum <= 12 /\ sum # 7

\* The product is taken in u128 and the quotient cast back to u64.
calculate_payout(bet_amount, payout_num, payout_den) ==
    ((bet_amount * payout_num) \div payout_den) % (U64_MAX + 1)

\* ------------------------------------------------------------------------
\* Payout ratios (src/program/src/craps/settle.rs)
\* ------------------------------------------------------------------------
\* Place bets that pay even money on every point.
place_pays_even(point) == <<1, 1>>

get_place_payout(point) ==
    CASE point \in {4, 10} -> <<PLACE_4_10_PAYOUT_NUM, PLACE_4_10_PAYOUT_DEN>>
      [] point \in {5, 9} -> <<PLACE_5_9_PAYOUT_NUM, PLACE_5_9_PAYOUT_DEN>>
      [] point \in {6, 8} -> <<PLACE_6_8_PAYOUT_NUM, PLACE_6_8_PAYOUT_DEN>>
      [] OTHER -> <<0, 1>>

\* Odds that pay even money on every point.
true_odds_pay_even(point) == <<1, 1>>

get_true_odds_payout(point) ==
    CASE point \in {4, 10} -> <<TRUE_ODDS_4_10_NUM, TRUE_ODDS_4_10_DEN>>
      [] point \in {5, 9} -> <<TRUE_ODDS_5_9_NUM, TRUE_ODDS_5_9_DEN>>
      [] point \in {6, 8} -> <<TRUE_ODDS_6_8_NUM, TRUE_ODDS_6_8_DEN>>
      [] OTHER -> <<0, 1>>

get_dont_true_odds_payout(point) ==
    CASE point \in {4, 10} -> <<TRUE_ODDS_4_10_DEN, TRUE_ODDS_4_10_NUM>>
      [] point \in {5, 9} -> <<TRUE_ODDS_5_9_DEN, TRUE_ODDS_5_9_NUM>>
      [] point \in {6, 8} -> <<TRUE_ODDS_6_8_DEN, TRUE_ODDS_6_8_NUM>>
      [] OTHER -> <<0, 1>>

\* Different doubles that pay even money for every count.
diff_doubles_pays_even(count) == <<1, 1>>

get_diff_doubles_payout(count) ==
    CASE count = 3 -> <<DIFF_DOUBLES_3_PAYOUT_NUM, DIFF_DOUBLES_3_PAYOUT_DEN>>
      [] count = 4 -> <<DIFF_DOUBLES_4_PAYOUT_NUM, DIFF_DOUBLES_4_PAYOUT_DEN>>
      [] count = 5 -> <<DIFF_DOUBLES_5_PAYOUT_NUM, DIFF_DOUBLES_5_PAYOUT_DEN>>
      [] count = 6 -> <<DIFF_DOUBLES_6_PAYOUT_NUM, DIFF_DOUBLES_6_PAYOUT_DEN>>
      [] OTHER -> <<0, 1>>

get_fire_bet_payout(points) ==
    CASE points = 4 -> <<FIRE_4_POINTS_PAYOUT_NUM, FIRE_4_POINTS_PAYOUT_DEN>>
      [] points = 5 -> <<FIRE_5_POINTS_PAYOUT_NUM, FIRE_5_POINTS_PAYOUT_DEN>>
      [] points = 6 -> <<FIRE_6_POINTS_PAYOUT_NUM, FIRE_6_POINTS_PAYOUT_DEN>>
      [] OTHER -> <<0, 1>>

get_ride_the_line_payout(wins) ==
    CASE wins = 3 -> <<RIDE_3_WINS_PAYOUT_NUM, RIDE_3_WINS_PAYOUT_DEN>>
      [] wins = 4 -> <<RIDE_4_WINS_PAYOUT_NUM, RIDE_4_WINS_PAYOUT_DEN>>
      [] wins = 5 -> <<RIDE_5_WINS_PAYOUT_NUM, RIDE_5_WINS_PAYOUT_DEN>>
      [] wins = 6 -> <<RIDE_6_WINS_PAYOUT_NUM, RIDE_6_WINS_PAYOUT_DEN>>
      [] wins = 7 -> <<RIDE_7_WINS_PAYOUT_NUM, RIDE_7_WINS_PAYOUT_DEN>>
      [] wins = 8 -> <<RIDE_8_WINS_PAYOUT_NUM, RIDE_8_WINS_PAYOUT_DEN>>
      [] wins = 9 -> <<RIDE_9_WINS_PAYOUT_NUM, RIDE_9_WINS_PAYOUT_DEN>>
      [] wins = 10 -> <<RIDE_10_WINS_PAYOUT_NUM, RIDE_10_WINS_PAYOUT_DEN>>
      [] wins >= 11 -> <<RIDE_11_WINS_PAYOUT_NUM, RIDE_11_WINS_PAYOUT_DEN>>
      [] OTHER -> <<0, 1>>

\* The ratio of one replay counter: by point index and count (count >= 3).
replay_ratio(idx, count) ==
    CASE idx \in {0, 5} ->
            IF count >= 4 THEN <<REPLAY_4_10_4X_PAYOUT_NUM, REPLAY_4_10_4X_PAYOUT_DEN>>
            ELSE <<REPLAY_4_10_3X_PAYOUT_NUM, REPLAY_4_10_3X_PAYOUT_DEN>>
      [] idx \in {1, 4} ->
            IF count >= 4 THEN <<REPLAY_5_9_4X_PAYOUT_NUM, REPLAY_5_9_4X_PAYOUT_DEN>>
            ELSE <<REPLAY_5_9_3X_PAYOUT_NUM, REPLAY_5_9_3X_PAYOUT_DEN>>
      [] idx \in {2, 3} ->
            IF count >= 4 THEN <<REPLAY_6_8_4X_PAYOUT_NUM, REPLAY_6_8_4X_PAYOUT_DEN>>
            ELSE <<REPLAY_6_8_3X_PAYOUT_NUM, REPLAY_6_8_3X_PAYOUT_DEN>>
      [] OTHER -> <<0, 1>>

RECURSIVE replay_best(_, _, _)
replay_best(counts, idx, best) ==
    IF idx >= NUM_POINTS THEN best
    ELSE IF counts[idx] < 3 THEN replay_best(counts, idx + 1, best)
    ELSE LET payout == replay_ratio(idx, counts[idx])
         IN  IF payout[1] * best[2] > best[1] * payout[2]
             THEN replay_best(counts, idx + 1, payout)
             ELSE replay_best(counts, idx + 1, best)

get_replay_bet_payout(counts) == replay_best(counts, 0, <<0, 1>>)

get_next_payout(sum) ==
    CASE sum = 2 -> <<HOP_2_PAYOUT_NUM, HOP_2_PAYOUT_DEN>>
      [] sum = 3 -> <<HOP_3_PAYOUT_NUM, HOP_3_PAYOUT_DEN>>
      [] sum = 4 -> <<HOP_4_PAYOUT_NUM, HOP_4_PAYOUT_DEN>>
      [] sum = 5 -> <<HOP_5_PAYOUT_NUM, HOP_5_PAYOUT_DEN>>
      [] sum = 6 -> <<HOP_6_PAYOUT_NUM, HOP_6_PAYOUT_DEN>>
      [] sum = 7 -> <<HOP_7_PAYOUT_NUM, HOP_7_PAYOUT_DEN>>
      [] sum = 8 -> <<HOP_8_PAYOUT_NUM, HOP_8_PAYOUT_DEN>>
      [] sum = 9 -> <<HOP_9_PAYOUT_NUM, HOP_9_PAYOUT_DEN>>
      [] sum = 10 -> <<HOP_10_PAYOUT_NUM, HOP_10_PAYOUT_DEN>>
      [] sum = 11 -> <<HOP_11_PAYOUT_NUM, HOP_11_PAYOUT_DEN>>
      [] sum = 12 -> <<HOP_12_PAYOUT_NUM, HOP_12_PAYOUT_DEN>>
      [] OTHER -> <<0, 1>>

get_yes_payout(sum) ==
    CASE sum = 2 -> <<YES_2_PAYOUT_NUM, YES_2_PAYOUT_DEN>>
      [] sum = 3 -> <<YES_3_PAYOUT_NUM, YES_3_PAYOUT_DEN>>
      [] sum = 4 -> <<YES_4_PAYOUT_NUM, YES_4_PAYOUT_DEN>>
      [] sum = 5 -> <<YES_5_PAYOUT_NUM, YES_5_PAYOUT_DEN>>
      [] sum = 6 -> <<YES_6_PAYOUT_NUM, YES_6_PAYOUT_DEN>>
      [] sum = 8 -> <<YES_8_PAYOUT_NUM, YES_8_PAYOUT_DEN>>
      [] sum = 9 -> <<YES_9_PAYOUT_NUM, YES_9_PAYOUT_DEN>>
      [] sum = 10 -> <<YES_10_PAYOUT_NUM, YES_10_PAYOUT_DEN>>
      [] sum = 11 -> <<YES_11_PAYOUT_NUM, YES_11_PAYOUT_DEN>>
      [] sum = 12 -> <<YES_12_PAYOUT_NUM, YES_12_PAYOUT_DEN>>
      [] OTHER -> <<0, 1>>

get_no_payout(sum) ==
    CASE sum = 2 -> <<NO_2_PAYOUT_NUM, NO_2_PAYOUT_DEN>>
      [] sum = 3 -> <<NO_3_PAYOUT_NUM, NO_3_PAYOUT_DEN>>
      [] sum = 4 -> <<NO_4_PAYOUT_NUM, NO_4_PAYOUT_DEN>>
      [] sum = 5 -> <<NO_5_PAYOUT_NUM, NO_5_PAYOUT_DEN>>
      [] sum = 6 -> <<NO_6_PAYOUT_NUM, NO_6_PAYOUT_DEN>>
      [] sum = 8 -> <<NO_8_PAYOUT_NUM, NO_8_PAYOUT_DEN>>
      [] sum = 9 -> <<NO_9_PAYOUT_NUM, NO_9_PAYOUT_DEN>>
      [] sum = 10 -> <<NO_10_PAYOUT_NUM, NO_10_PAYOUT_DEN>>
      [] sum = 11 -> <<NO_11_PAYOUT_NUM, NO_11_PAYOUT_DEN>>
      [] sum = 12 -> <<NO_12_PAYOUT_NUM, NO_12_PAYOUT_DEN>>
      [] OTHER -> <<0, 1>>

\* ------------------------------------------------------------------------
\* Accounts (src/api/src/state/craps_game.rs, craps_position.rs)
\* ------------------------------------------------------------------------
Players == 1..NumPlayers

PointIdx == 0..(NUM_POINTS - 1)
HardIdx == 0..(NUM_HARDWAYS - 1)
SumIdx == 0..10
FcIdx == 0..2

ZeroPoints == [i \in PointIdx |-> 0]
ZeroHard == [i \in HardIdx |-> 0]
ZeroSums == [i \in SumIdx |-> 0]
ZeroFc == [i \in FcIdx |-> 0]

\* The CrapsGame account as place_craps_bet or fund_craps_house creates it.
NewCrapsGame ==
    [created |-> TRUE, epoch_id |-> 1, point |-> 0, is_come_out |-> 1, epoch_start_round |-> 0,
     house_bankroll |-> 0, total_payouts |-> 0, total_collected |-> 0,
     reserved_payouts |-> 0]

\* The CrapsGame account before it holds data.
EmptyCrapsGame == [NewCrapsGame EXCEPT !.created = FALSE, !.epoch_id = 0, !.is_come_out = 0]

\* A zeroed CrapsPosition account; created is FALSE while the account holds
\* no data.  The bitmask fields are the sets of their set bits.
ZeroPosition ==
    [created |-> FALSE, epoch_id |-> 0,
     pass_line |-> 0, dont_pass |-> 0, pass_odds |-> 0, dont_pass_odds |-> 0,
     come_bets |-> ZeroPoints, come_odds |-> ZeroPoints,
     dont_come_bets |-> ZeroPoints, dont_come_odds |-> ZeroPoints,
     place_bets |-> ZeroPoints, place_working |-> 0,
     yes_bets |-> ZeroSums, no_bets |-> ZeroSums, next_bets |-> ZeroSums,
     hardways |-> ZeroHard,
     field_bet |-> 0, any_seven |-> 0, any_craps |-> 0, yo_eleven |-> 0,
     aces |-> 0, twelve |-> 0,
     bonus_small |-> 0, bonus_tall |-> 0, bonus_all |-> 0,
     small_hits |-> {}, tall_hits |-> {},
     fire_bet |-> 0, fire_points_made |-> {},
     diff_doubles_bet |-> 0, diff_doubles_hits |-> {},
     ride_the_line_bet |-> 0, ride_wins_count |-> 0,
     mugsy_bet |-> 0, mugsy_state |-> 0,
     hot_hand_bet |-> 0, hot_hand_hits |-> {},
     replay_bet |-> 0, replay_counts |-> ZeroPoints,
     fielders_choice |-> ZeroFc,
     pending_winnings |-> 0, total_wagered |-> 0, total_won |-> 0,
     total_lost |-> 0, last_updated_round |-> 0, unpaid_debt |-> 0]

is_coming_out(g) == g.is_come_out = 1

has_point(g) == g.point # 0

get_point(g) == IF g.point = 0 THEN None ELSE g.point

\* set_point without leaving the come-out phase.
set_point_keeps_phase(g, point) == [g EXCEPT !.point = point]

set_point(g, point) == [g EXCEPT !.point = point, !.is_come_out = 0]

clear_point(g) == [g EXCEPT !.point = 0, !.is_come_out = 1]

\* A new epoch that skips an epoch id.
start_new_epoch_skips(g, round_id) ==
    [clear_point(g) EXCEPT !.epoch_id = @ + 2, !.epoch_start_round = round_id]

start_new_epoch(g, round_id) ==
    clear_point([g EXCEPT !.epoch_id = @ + 1, !.epoch_start_round = round_id])

are_place_bets_working(p) == p.place_working = 1

clear_single_roll_bets(p) ==
    [p EXCEPT !.field_bet = 0, !.any_seven = 0, !.any_craps = 0,
              !.yo_eleven = 0, !.aces = 0, !.twelve = 0,
              !.fielders_choice = ZeroFc, !.next_bets = ZeroSums]

clear_bonus_bets(p) ==
    [p EXCEPT !.bonus_small = 0, !.bonus_tall = 0, !.bonus_all = 0,
              !.small_hits = {}, !.tall_hits = {}]

clear_shooter_bets(p) ==
    [p EXCEPT !.fire_bet = 0, !.fire_points_made = {},
              !.diff_doubles_bet = 0, !.diff_doubles_hits = {},
              !.ride_the_line_bet = 0, !.ride_wins_count = 0,
              !.mugsy_bet = 0, !.mugsy_state = 0,
              !.hot_hand_bet = 0, !.hot_hand_hits = {},
              !.replay_bet = 0, !.replay_counts = ZeroPoints]

clear_all_bets(p) ==
    clear_shooter_bets(clear_bonus_bets(clear_single_roll_bets(
        [p EXCEPT !.pass_line = 0, !.dont_pass = 0, !.pass_odds = 0,
                  !.dont_pass_odds = 0,
                  !.come_bets = ZeroPoints, !.come_odds = ZeroPoints,
                  !.dont_come_bets = ZeroPoints, !.dont_come_odds = ZeroPoints,
                  !.place_bets = ZeroPoints, !.yes_bets = ZeroSums,
                  !.no_bets = ZeroSums, !.hardways = ZeroHard])))

\* A reset that moves the position to the epoch and keeps what it holds.
reset_keeps_bets(p, epoch_id) == [p EXCEPT !.epoch_id = epoch_id]

reset_drops_pending(p, epoch_id) ==
    [clear_all_bets([p EXCEPT !.epoch_id = epoch_id])
        EXCEPT !.total_wagered = 0, !.total_won = 0, !.total_lost = 0,
               !.pending_winnings = 0]

reset_for_epoch(p, epoch_id) ==
    [clear_all_bets([p EXCEPT !.epoch_id = epoch_id])
        EXCEPT !.total_wagered = 0, !.total_won = 0, !.total_lost = 0]

has_bonus_bets(p) == p.bonus_small > 0 \/ p.bonus_tall > 0 \/ p.bonus_all > 0

\* record_bonus_hit: the position after the hit, and the two "just completed" flags.
bonus_hit_small(p, total) ==
    IF total >= 2 /\ total <= 6 THEN p.small_hits \cup {total - 2} ELSE p.small_hits

bonus_hit_tall(p, total) ==
    IF total >= 8 /\ total <= 12 THEN p.tall_hits \cup {total - 8} ELSE p.tall_hits

record_bonus_hit(p, total) ==
    [pos |-> [p EXCEPT !.small_hits = bonus_hit_small(p, total),
                       !.tall_hits = bonus_hit_tall(p, total)],
     small |-> total >= 2 /\ total <= 6 /\ p.small_hits # 0..4
               /\ bonus_hit_small(p, total) = 0..4,
     tall |-> total >= 8 /\ total <= 12 /\ p.tall_hits # 0..4
              /\ bonus_hit_tall(p, total) = 0..4]

is_all_complete(p) == p.small_hits = 0..4 /\ p.tall_hits = 0..4

record_fire_point(p, point) ==
    IF point_to_index(point) # None
    THEN [p EXCEPT !.fire_points_made = @ \cup {point_to_index(point)}]
    ELSE p

fire_points_count(p) == Cardinality(p.fire_points_made)

record_double(p, die_value) ==
    IF die_value >= 1 /\ die_value <= 6
    THEN [p EXCEPT !.diff_doubles_hits = @ \cup {die_value - 1}]
    ELSE p

diff_doubles_count(p) == Cardinality(p.diff_doubles_hits)

record_ride_win(p) ==
    IF p.ride_wins_count < 255 THEN [p EXCEPT !.ride_wins_count = @ + 1] ELSE p

record_hot_hand_hit(p, total) ==
    [p EXCEPT !.hot_hand_hits =
        (@ \cup (IF total >= 2 /\ total <= 6 THEN {total - 2} ELSE {}))
           \cup (IF total >= 8 /\ total <= 12 THEN {(total - 8) + 5} ELSE {})]

hot_hand_count(p) == Cardinality(p.hot_hand_hits)

record_replay_point(p, point) ==
    IF point_to_index(point) # None /\ p.replay_counts[point_to_index(point)] < 255
    THEN [p EXCEPT !.replay_counts[point_to_index(point)] = @ + 1]
    ELSE p

max_replay_count(p) ==
    CHOOSE m \in {p.replay_counts[i] : i \in PointIdx} :
        \A i \in PointIdx : p.replay_counts[i] <= m

set_mugsy_point_phase(p) ==
    IF p.mugsy_state = 0 THEN [p EXCEPT !.mugsy_state = 1] ELSE p

is_mugsy_comeout(p) == p.mugsy_state = 0

\* Sum of an array of stakes.
RECURSIVE SumTo(_, _)
SumTo(f, n) == IF n < 0 THEN 0 ELSE f[n] + SumTo(f, n - 1)

AnyPositive(f) == \E i \in DOMAIN f : f[i] > 0

\* ------------------------------------------------------------------------
\* Stake slots.  A slot is <<field, index>>; the index of a scalar field is 0.
\* ------------------------------------------------------------------------
PointFields == {"come_bets", "come_odds", "dont_come_bets", "dont_come_odds", "place_bets"}
SumFields == {"yes_bets", "no_bets", "next_bets"}
ArrayFields == PointFields \cup SumFields \cup {"hardways", "fielders_choice"}
ScalarFields ==
    {"pass_line", "dont_pass", "pass_odds", "dont_pass_odds", "field_bet",
     "any_seven", "any_craps", "yo_eleven", "aces", "twelve", "bonus_small",
     "bonus_tall", "bonus_all", "fire_bet", "diff_doubles_bet",
     "ride_the_line_bet", "mugsy_bet", "hot_hand_bet", "replay_bet"}

NoSlot == <<"none", 0>>

Stake(p, slot) == IF slot[1] \in ArrayFields THEN p[slot[1]][slot[2]] ELSE p[slot[1]]

SetStake(p, slot, v) ==
    IF slot[1] \in ArrayFields
    THEN [p EXCEPT ![slot[1]][slot[2]] = v]
    ELSE [p EXCEPT ![slot[1]] = v]

\* ------------------------------------------------------------------------
\* place_craps_bet (src/program/src/craps/place_bet.rs)
\* ------------------------------------------------------------------------
\* The closure calc of calculate_max_payout: amount * num / den + amount.
calc(amount, num, den) ==
    IF checked_mul(amount, num) = None THEN None
    ELSE checked_add(amount, checked_mul(amount, num) \div den)

\* The ratio calculate_max_payout selects; <<0, 0>> where it returns the amount.
max_payout_ratio(bet_type, point) ==
    CASE bet_type \in {0, 1, 4, 5} -> <<PASS_LINE_PAYOUT_NUM, PASS_LINE_PAYOUT_DEN>>
      [] bet_type \in {2, 3, 6, 7} ->
            (CASE point \in {4, 10} -> <<TRUE_ODDS_4_10_NUM, TRUE_ODDS_4_10_DEN>>
               [] point \in {5, 9} -> <<TRUE_ODDS_5_9_NUM, TRUE_ODDS_5_9_DEN>>
               [] point \in {6, 8} -> <<TRUE_ODDS_6_8_NUM, TRUE_ODDS_6_8_DEN>>
               [] OTHER -> <<0, 0>>)
      [] bet_type = 8 ->
            (CASE point \in {4, 10} -> <<PLACE_4_10_PAYOUT_NUM, PLACE_4_10_PAYOUT_DEN>>
               [] point \in {5, 9} -> <<PLACE_5_9_PAYOUT_NUM, PLACE_5_9_PAYOUT_DEN>>
               [] point \in {6, 8} -> <<PLACE_6_8_PAYOUT_NUM, PLACE_6_8_PAYOUT_DEN>>
               [] OTHER -> <<0, 0>>)
      [] bet_type = 9 ->
            (CASE point \in {4, 10} -> <<HARD_4_10_PAYOUT_NUM, HARD_4_10_PAYOUT_DEN>>
               [] point \in {6, 8} -> <<HARD_6_8_PAYOUT_NUM, HARD_6_8_PAYOUT_DEN>>
               [] OTHER -> <<0, 0>>)
      [] bet_type = 10 -> <<FIELD_PAYOUT_2_12_NUM, FIELD_PAYOUT_2_12_DEN>>
      [] bet_type = 11 -> <<ANY_SEVEN_PAYOUT_NUM, ANY_SEVEN_PAYOUT_DEN>>
      [] bet_type = 12 -> <<ANY_CRAPS_PAYOUT_NUM, ANY_CRAPS_PAYOUT_DEN>>
      [] bet_type = 13 -> <<YO_ELEVEN_PAYOUT_NUM, YO_ELEVEN_PAYOUT_DEN>>
      [] bet_type = 14 -> <<ACES_PAYOUT_NUM, ACES_PAYOUT_DEN>>
      [] bet_type = 15 -> <<TWELVE_PAYOUT_NUM, TWELVE_PAYOUT_DEN>>
      [] bet_type = 26 ->
            IF is_valid_yes_no_sum(point) THEN get_yes_payout(point) ELSE <<0, 0>>
      [] bet_type = 27 ->
            IF is_valid_yes_no_sum(point) THEN get_no_payout(point) ELSE <<0, 0>>
      [] bet_type = 28 ->
            IF point >= 2 /\ point <= 12 THEN get_next_payout(point) ELSE <<0, 0>>
      [] OTHER -> <<0, 0>>

\* A reservation of the stake alone, whatever the category pays.
max_payout_is_stake(bet_type, point, amount) == amount

calculate_max_payout(bet_type, point, amount) ==
    LET r == max_payout_ratio(bet_type, point)
    IN  IF r = <<0, 0>> THEN amount ELSE calc(amount, r[1], r[2])

\* The match on bet_type: the slot the stake goes to, NoSlot where the code
\* returns InvalidBetType.
hardway_index(point) ==
    CASE point = 4 -> 0
      [] point = 6 -> 1
      [] point = 8 -> 2
      [] point = 10 -> 3
      [] OTHER -> None

\* A place_craps_bet that books every bet on the pass line, whatever its
\* category, point and phase.
bet_slot_unchecked(g, p, bet_type, point) == <<"pass_line", 0>>

bet_slot_takes_fire(g, p, bet_type, point) == <<"fire_bet", 0>>

bet_slot(g, p, bet_type, point) ==
    CASE bet_type = 0 -> IF ~is_coming_out(g) THEN NoSlot ELSE <<"pass_line", 0>>
      [] bet_type = 1 -> IF ~is_coming_out(g) THEN NoSlot ELSE <<"dont_pass", 0>>
      [] bet_type = 2 ->
            IF ~has_point(g) THEN NoSlot
            ELSE IF p.pass_line = 0 THEN NoSlot ELSE <<"pass_odds", 0>>
      [] bet_type = 3 ->
            IF ~has_point(g) THEN NoSlot
            ELSE IF p.dont_pass = 0 THEN NoSlot ELSE <<"dont_pass_odds", 0>>
      [] bet_type = 4 ->
            IF point_to_index(point) # None
            THEN <<"come_bets", point_to_index(point)>> ELSE NoSlot
      [] bet_type = 5 ->
            IF point_to_index(point) # None
            THEN <<"dont_come_bets", point_to_index(point)>> ELSE NoSlot
      [] bet_type = 6 ->
            IF point_to_index(point) # None
            THEN IF p.come_bets[point_to_index(point)] = 0 THEN NoSlot
                 ELSE <<"come_odds", point_to_index(point)>>
            ELSE NoSlot
      [] bet_type = 7 ->
            IF point_to_index(point) # None
            THEN IF p.dont_come_bets[point_to_index(point)] = 0 THEN NoSlot
                 ELSE <<"dont_come_odds", point_to_index(point)>>
            ELSE NoSlot
      [] bet_type = 8 ->
            IF point_to_index(point) # None
            THEN <<"place_bets", point_to_index(point)>> ELSE NoSlot
      [] bet_type = 9 ->
            IF hardway_index(point) # None
            THEN <<"hardways", hardway_index(point)>> ELSE NoSlot
      [] bet_type = 10 -> <<"field_bet", 0>>
      [] bet_type = 11 -> <<"any_seven", 0>>
      [] bet_type = 12 -> <<"any_craps", 0>>
      [] bet_type = 13 -> <<"yo_eleven", 0>>
      [] bet_type = 14 -> <<"aces", 0>>
      [] bet_type = 15 -> <<"twelve", 0>>
      [] bet_type = 26 ->
            IF is_valid_yes_no_sum(point) /\ sum_to_index(point) # None
            THEN <<"yes_bets", sum_to_index(point)>> ELSE NoSlot
      [] bet_type = 27 ->
            IF is_valid_yes_no_sum(point) /\ sum_to_index(point) # None
            THEN <<"no_bets", sum_to_index(point)>> ELSE NoSlot
      [] bet_type = 28 ->
            IF sum_to_index(point) # None
            THEN <<"next_bets", sum_to_index(point)>> ELSE NoSlot
      [] OTHER -> NoSlot

\* The position place_craps_bet works on: created on first use, reset when
\* it is from an old epoch.
load_position(g, p) ==
    IF ~p.created THEN [ZeroPosition EXCEPT !.created = TRUE, !.epoch_id = g.epoch_id]
    ELSE IF p.epoch_id # g.epoch_id THEN reset_for_epoch(p, g.epoch_id)
    ELSE p

load_game(g) == IF ~g.created THEN NewCrapsGame ELSE g

\* What a handler returns: its result code, the two accounts it leaves, and
\* the tokens it moved into (positive) or out of (negative) the vault.
Result(res, g, p) == [res |-> res, game |-> g, pos |-> p, transfer |-> 0]

\* The accounts after the stake went to its slot: totals, reservation, bankroll.
commit_bet(g, p, slot, amount, max_payout) ==
    LET staked == checked_add(Stake(p, slot), amount)
        p1 == IF slot[1] = "place_bets"
              THEN [SetStake(p, slot, staked) EXCEPT !.place_working = 1]
              ELSE SetStake(p, slot, staked)
        wagered == checked_add(p.total_wagered, amount)
        reserved == checked_add(g.reserved_payouts, max_payout)
        bankroll == checked_add(g.house_bankroll, amount)
    IN  IF staked = None \/ wagered = None \/ reserved = None \/ bankroll = None
        THEN Result("ArithmeticOverflow", g, p)
        ELSE [Result("Ok",
                     [g EXCEPT !.reserved_payouts = reserved, !.house_bankroll = bankroll],
                     [p1 EXCEPT !.total_wagered = wagered])
                EXCEPT !.transfer = amount]

process_place_craps_bet(g0, p0, bet_type, point, amount) ==
    LET g == load_game(g0)
        p == load_position(g, p0)
        max_payout == calculate_max_payout(bet_type, point, amount)
        available_bankroll == checked_sub(g.house_bankroll, g.reserved_payouts)
        slot == bet_slot(g, p, bet_type, point)
    IN  IF amount = 0 THEN Result("InvalidBetAmount", g, p)
        ELSE IF amount > MAX_BET_AMOUNT THEN Result("InvalidBetAmount", g, p)
        ELSE IF max_payout = None THEN Result("ArithmeticOverflow", g, p)
        ELSE IF available_bankroll = None THEN Result("InsufficientBankroll", g, p)
        ELSE IF max_payout > available_bankroll THEN Result("InsufficientBankroll", g, p)
        ELSE IF slot = NoSlot THEN Result("InvalidBetType", g, p)
        ELSE commit_bet(g, p, slot, amount, max_payout)

\* ------------------------------------------------------------------------
\* settle_craps (src/program/src/craps/settle.rs)
\* ------------------------------------------------------------------------
\* The amount release_reserved_payout computes for a stake.
release_amount(bet_amount, payout_num, payout_den) ==
    saturating_add(bet_amount,
                   saturating_mul(bet_amount, payout_num) \div Max(payout_den, 1))

\* A release that subtracts without looking at what is reserved.
release_unclamped(g, bet_amount, payout_num, payout_den) ==
    [g EXCEPT !.reserved_payouts = @ - release_amount(bet_amount, payout_num, payout_den)]

release_reserved_payout(g, bet_amount, payout_num, payout_den) ==
    IF checked_sub(g.reserved_payouts,
                   release_amount(bet_amount, payout_num, payout_den)) # None
    THEN [g EXCEPT !.reserved_payouts =
            @ - release_amount(bet_amount, payout_num, payout_den)]
    ELSE [g EXCEPT !.reserved_payouts = 0]

\* The running state of one settle_craps call: the two accounts, the locals
\* total_winnings and total_lost, whether a checked operation has failed, and
\* the releases made so far (slot, stake, amount taken off reserved_payouts).
Ctx(g, p) == [g |-> g, p |-> p, tw |-> 0, tl |-> 0, err |-> FALSE, log |-> <<>>]

\* total_winnings += stake + calculate_payout(stake, num, den)
Win(c, stake, num, den) ==
    LET win_amount == checked_add(stake, calculate_payout(stake, num, den))
    IN  IF c.err THEN c
        ELSE IF win_amount = None THEN [c EXCEPT !.err = TRUE]
        ELSE IF checked_add(c.tw, win_amount) = None THEN [c EXCEPT !.err = TRUE]
        ELSE [c EXCEPT !.tw = @ + win_amount]

\* total_winnings += amount, where amount is the result of a checked operation
WinAmount(c, amount) ==
    IF c.err THEN c
    ELSE IF amount = None THEN [c EXCEPT !.err = TRUE]
    ELSE IF checked_add(c.tw, amount) = None THEN [c EXCEPT !.err = TRUE]
    ELSE [c EXCEPT !.tw = @ + amount]

\* total_lost += stake, where stake may be the result of a checked operation
Lose(c, stake) ==
    IF c.err THEN c
    ELSE IF stake = None THEN [c EXCEPT !.err = TRUE]
    ELSE IF checked_add(c.tl, stake) = None THEN [c EXCEPT !.err = TRUE]
    ELSE [c EXCEPT !.tl = @ + stake]

\* release_reserved_payout for the stake of a slot, then the slot is zeroed.
Release(c, slot, num, den) ==
    LET stake == Stake(c.p, slot)
        g1 == release_reserved_payout(c.g, stake, num, den)
    IN  IF c.err THEN c
        ELSE [c EXCEPT !.g = g1,
                       !.log = Append(@, <<slot, stake,
                                           c.g.reserved_payouts - g1.reserved_payouts>>)]

Clear(c, slot) == IF c.err THEN c ELSE [c EXCEPT !.p = SetStake(@, slot, 0)]

ReleaseClear(c, slot, num, den) == Clear(Release(c, slot, num, den), slot)

\* A single-roll bet: wins at win_num:win_den when won, else is lost; its
\* reservation is released at rel_num:rel_den and the slot is cleared.
settle_single(c, slot, won, win_num, win_den, rel_num, rel_den) ==
    IF Stake(c.p, slot) > 0
    THEN ReleaseClear(IF won THEN Win(c, Stake(c.p, slot), win_num, win_den)
                      ELSE Lose(c, Stake(c.p, slot)),
                      slot, rel_num, rel_den)
    ELSE c

\* A field bet that pays 1:1 on 2 and 12 as on the other field numbers.
settle_field_pays_normal(c, dice_sum) ==
    settle_single(c, <<"field_bet", 0>>, is_field_winner(dice_sum),
                  FIELD_PAYOUT_NORMAL_NUM, FIELD_PAYOUT_NORMAL_DEN,
                  FIELD_PAYOUT_2_12_NUM, FIELD_PAYOUT_2_12_DEN)

settle_field(c, dice_sum) ==
    settle_single(c, <<"field_bet", 0>>, is_field_winner(dice_sum),
                  IF dice_sum = 2 \/ dice_sum = 12
                  THEN FIELD_PAYOUT_2_12_NUM ELSE FIELD_PAYOUT_NORMAL_NUM,
                  IF dice_sum = 2 \/ dice_sum = 12
                  THEN FIELD_PAYOUT_2_12_DEN ELSE FIELD_PAYOUT_NORMAL_DEN,
                  FIELD_PAYOUT_2_12_NUM, FIELD_PAYOUT_2_12_DEN)

settle_any_seven(c, dice_sum) ==
    settle_single(c, <<"any_seven", 0>>, dice_sum = 7,
                  ANY_SEVEN_PAYOUT_NUM, ANY_SEVEN_PAYOUT_DEN,
                  ANY_SEVEN_PAYOUT_NUM, ANY_SEVEN_PAYOUT_DEN)

settle_any_craps(c, dice_sum) ==
    settle_single(c, <<"any_craps", 0>>, is_craps(dice_sum),
                  ANY_CRAPS_PAYOUT_NUM, ANY_CRAPS_PAYOUT_DEN,
                  ANY_CRAPS_PAYOUT_NUM, ANY_CRAPS_PAYOUT_DEN)

settle_yo_eleven(c, dice_sum) ==
    settle_single(c, <<"yo_eleven", 0>>, dice_sum = 11,
                  YO_ELEVEN_PAYOUT_NUM, YO_ELEVEN_PAYOUT_DEN,
                  YO_ELEVEN_PAYOUT_NUM, YO_ELEVEN_PAYOUT_DEN)

settle_aces(c, dice_sum) ==
    settle_single(c, <<"aces", 0>>, dice_sum = 2,
                  ACES_PAYOUT_NUM, ACES_PAYOUT_DEN,
                  ACES_PAYOUT_NUM, ACES_PAYOUT_DEN)

settle_twelve(c, dice_sum) ==
    settle_single(c, <<"twelve", 0>>, dice_sum = 12,
                  TWELVE_PAYOUT_NUM, TWELVE_PAYOUT_DEN,
                  TWELVE_PAYOUT_NUM, TWELVE_PAYOUT_DEN)

\* for next_idx in 0..11
RECURSIVE settle_next_bets(_, _, _)
settle_next_bets(c, dice_sum, next_idx) ==
    IF next_idx >= 11 \/ c.err THEN c
    ELSE settle_next_bets(
            settle_single(c, <<"next_bets", next_idx>>, dice_sum = next_idx + 2,
                          get_next_payout(next_idx + 2)[1], get_next_payout(next_idx + 2)[2],
                          get_next_payout(next_idx + 2)[1], get_next_payout(next_idx + 2)[2]),
            dice_sum, next_idx + 1)

\* The position of a running settle is replaced (nothing happens after an error).
SetP(c, p) == IF c.err THEN c ELSE [c EXCEPT !.p = p]

SetG(c, g) == IF c.err THEN c ELSE [c EXCEPT !.g = g]

\* A bonus bet lost on a seven: counted lost and released, cleared with the rest.
bonus_lose(c, slot, num, den) ==
    IF Stake(c.p, slot) > 0
    THEN Release(Lose(c, Stake(c.p, slot)), slot, num, den)
    ELSE c

\* A bonus bet paid when its set of totals is complete.
bonus_win(c, slot, complete, num, den) ==
    IF complete /\ Stake(c.p, slot) > 0
    THEN ReleaseClear(Win(c, Stake(c.p, slot), num, den), slot, num, den)
    ELSE c

settle_bonus_seven(c) ==
    LET c1 == bonus_lose(c, <<"bonus_small", 0>>, BONUS_SMALL_PAYOUT_NUM, BONUS_SMALL_PAYOUT_DEN)
        c2 == bonus_lose(c1, <<"bonus_tall", 0>>, BONUS_TALL_PAYOUT_NUM, BONUS_TALL_PAYOUT_DEN)
        c3 == bonus_lose(c2, <<"bonus_all", 0>>, BONUS_ALL_PAYOUT_NUM, BONUS_ALL_PAYOUT_DEN)
    IN  SetP(c3, clear_bonus_bets(c3.p))

settle_bonus_hit(c, dice_sum) ==
    LET hit == record_bonus_hit(c.p, dice_sum)
        c0 == SetP(c, hit.pos)
        c1 == bonus_win(c0, <<"bonus_small", 0>>, hit.small,
                        BONUS_SMALL_PAYOUT_NUM, BONUS_SMALL_PAYOUT_DEN)
        c2 == bonus_win(c1, <<"bonus_tall", 0>>, hit.tall,
                        BONUS_TALL_PAYOUT_NUM, BONUS_TALL_PAYOUT_DEN)
    IN  bonus_win(c2, <<"bonus_all", 0>>, is_all_complete(c2.p),
                  BONUS_ALL_PAYOUT_NUM, BONUS_ALL_PAYOUT_DEN)

settle_bonus(c, dice_sum) ==
    IF has_bonus_bets(c.p)
    THEN IF dice_sum = 7 THEN settle_bonus_seven(c) ELSE settle_bonus_hit(c, dice_sum)
    ELSE c

fielders_wins(i, dice_sum) ==
    CASE i = 0 -> dice_sum \in {2, 3, 4}
      [] i = 1 -> dice_sum \in {4, 9, 10}
      [] i = 2 -> dice_sum \in {10, 11, 12}
      [] OTHER -> FALSE

fielders_payout(i) ==
    CASE i = 0 -> <<FIELDERS_1_PAYOUT_NUM, FIELDERS_1_PAYOUT_DEN>>
      [] i = 1 -> <<FIELDERS_2_PAYOUT_NUM, FIELDERS_2_PAYOUT_DEN>>
      [] i = 2 -> <<FIELDERS_3_PAYOUT_NUM, FIELDERS_3_PAYOUT_DEN>>
      [] OTHER -> <<0, 1>>

\* for i in 0..3
RECURSIVE settle_fielders_choice(_, _, _)
settle_fielders_choice(c, dice_sum, i) ==
    IF i >= 3 \/ c.err THEN c
    ELSE settle_fielders_choice(
            settle_single(c, <<"fielders_choice", i>>, fielders_wins(i, dice_sum),
                          fielders_payout(i)[1], fielders_payout(i)[2],
                          fielders_payout(i)[1], fielders_payout(i)[2]),
            dice_sum, i + 1)

settle_diff_doubles(c, dice_sum, die1, die2) ==
    LET slot == <<"diff_doubles_bet", 0>>
        bet == c.p.diff_doubles_bet
        count == diff_doubles_count(c.p)
        rec == SetP(c, record_double(c.p, die1))
    IN  IF bet = 0 THEN c
        ELSE IF dice_sum = 7
        THEN LET c1 == IF count >= 3
                       THEN Win(c, bet, get_diff_doubles_payout(count)[1],
                                get_diff_doubles_payout(count)[2])
                       ELSE Lose(c, bet)
                 c2 == ReleaseClear(c1, slot, DIFF_DOUBLES_6_PAYOUT_NUM,
                                    DIFF_DOUBLES_6_PAYOUT_DEN)
             IN  SetP(c2, [c2.p EXCEPT !.diff_doubles_hits = {}])
        ELSE IF die1 = die2
        THEN IF diff_doubles_count(rec.p) = 6
             THEN LET c2 == ReleaseClear(
                                Win(rec, bet, DIFF_DOUBLES_6_PAYOUT_NUM,
                                    DIFF_DOUBLES_6_PAYOUT_DEN),
                                slot, DIFF_DOUBLES_6_PAYOUT_NUM, DIFF_DOUBLES_6_PAYOUT_DEN)
                  IN  SetP(c2, [c2.p EXCEPT !.diff_doubles_hits = {}])
             ELSE rec
        ELSE c

settle_hot_hand(c, dice_sum) ==
    LET slot == <<"hot_hand_bet", 0>>
        bet == c.p.hot_hand_bet
        count == hot_hand_count(c.p)
        rec == SetP(c, record_hot_hand_hit(c.p, dice_sum))
    IN  IF bet = 0 THEN c
        ELSE IF dice_sum = 7
        THEN LET c1 == IF count >= 9
                       THEN IF count >= 10
                            THEN Win(c, bet, HOT_HAND_10_PAYOUT_NUM, HOT_HAND_10_PAYOUT_DEN)
                            ELSE Win(c, bet, HOT_HAND_9_PAYOUT_NUM, HOT_HAND_9_PAYOUT_DEN)
                       ELSE Lose(c, bet)
                 c2 == ReleaseClear(c1, slot, HOT_HAND_10_PAYOUT_NUM, HOT_HAND_10_PAYOUT_DEN)
             IN  SetP(c2, [c2.p EXCEPT !.hot_hand_hits = {}])
        ELSE IF rec.p.hot_hand_hits = 0..9
        THEN LET c2 == ReleaseClear(
                           Win(rec, bet, HOT_HAND_10_PAYOUT_NUM, HOT_HAND_10_PAYOUT_DEN),
                           slot, HOT_HAND_10_PAYOUT_NUM, HOT_HAND_10_PAYOUT_DEN)
             IN  SetP(c2, [c2.p EXCEPT !.hot_hand_hits = {}])
        ELSE rec

settle_mugsy(c, dice_sum) ==
    LET slot == <<"mugsy_bet", 0>>
        bet == c.p.mugsy_bet
        c1 == IF is_mugsy_comeout(c.p)
              THEN Win(c, bet, MUGSY_COMEOUT_7_PAYOUT_NUM, MUGSY_COMEOUT_7_PAYOUT_DEN)
              ELSE Win(c, bet, MUGSY_POINT_7_PAYOUT_NUM, MUGSY_POINT_7_PAYOUT_DEN)
        c2 == ReleaseClear(c1, slot, MUGSY_POINT_7_PAYOUT_NUM, MUGSY_POINT_7_PAYOUT_DEN)
    IN  IF bet > 0 /\ dice_sum = 7
        THEN SetP(c2, [c2.p EXCEPT !.mugsy_state = 0])
        ELSE c

hardway_num(i) == 4 + 2 * i

hardway_payout(i) ==
    IF hardway_num(i) = 4 \/ hardway_num(i) = 10
    THEN <<HARD_4_10_PAYOUT_NUM, HARD_4_10_PAYOUT_DEN>>
    ELSE <<HARD_6_8_PAYOUT_NUM, HARD_6_8_PAYOUT_DEN>>

settle_hardway(c, winning_square, i) ==
    LET slot == <<"hardways", i>>
        bet == c.p.hardways[i]
        r == hardway_payout(i)
    IN  IF bet = 0 THEN c
        ELSE IF square_to_dice_sum(winning_square) = hardway_num(i)
                /\ is_hardway(winning_square)
        THEN ReleaseClear(Win(c, bet, r[1], r[2]), slot, r[1], r[2])
        ELSE IF hardway_loses(winning_square, hardway_num(i))
        THEN ReleaseClear(Lose(c, bet), slot, r[1], r[2])
        ELSE c

\* for i in 0..NUM_HARDWAYS
RECURSIVE settle_hardways(_, _, _)
settle_hardways(c, winning_square, i) ==
    IF i >= NUM_HARDWAYS \/ c.err THEN c
    ELSE settle_hardways(settle_hardway(c, winning_square, i), winning_square, i + 1)

\* A bet that stays up until it wins or loses: settled only when one happens.
settle_standing(c, slot, won, lost, num, den) ==
    IF Stake(c.p, slot) = 0 THEN c
    ELSE IF won THEN ReleaseClear(Win(c, Stake(c.p, slot), num, den), slot, num, den)
    ELSE IF lost THEN ReleaseClear(Lose(c, Stake(c.p, slot)), slot, num, den)
    ELSE c

\* for i in 0..NUM_POINTS (inside the are_place_bets_working test)
RECURSIVE settle_place_loop(_, _, _)
settle_place_loop(c, dice_sum, i) ==
    IF i >= NUM_POINTS \/ c.err THEN c
    ELSE settle_place_loop(
            settle_standing(c, <<"place_bets", i>>, dice_sum = index_to_point(i),
                            dice_sum = 7,
                            get_place_payout(index_to_point(i))[1],
                            get_place_payout(index_to_point(i))[2]),
            dice_sum, i + 1)

settle_place_bets(c, dice_sum) ==
    IF are_place_bets_working(c.p) THEN settle_place_loop(c, dice_sum, 0) ELSE c

\* for i in 0..11, skipping the sum 7
RECURSIVE settle_yes_bets(_, _, _)
settle_yes_bets(c, dice_sum, i) ==
    IF i >= 11 \/ c.err THEN c
    ELSE IF i + 2 = 7 THEN settle_yes_bets(c, dice_sum, i + 1)
    ELSE settle_yes_bets(
            settle_standing(c, <<"yes_bets", i>>, dice_sum = i + 2, dice_sum = 7,
                            get_yes_payout(i + 2)[1], get_yes_payout(i + 2)[2]),
            dice_sum, i + 1)

RECURSIVE settle_no_bets(_, _, _)
settle_no_bets(c, dice_sum, i) ==
    IF i >= 11 \/ c.err THEN c
    ELSE IF i + 2 = 7 THEN settle_no_bets(c, dice_sum, i + 1)
    ELSE settle_no_bets(
            settle_standing(c, <<"no_bets", i>>, dice_sum = 7, dice_sum = i + 2,
                            get_no_payout(i + 2)[1], get_no_payout(i + 2)[2]),
            dice_sum, i + 1)

\* A come or don't-come bet with its odds when the bet wins: the flat bet is
\* paid 1:1, the odds at the true odds of the number.
come_pair_win(c, bet_field, odds_field, i) ==
    LET bet == c.p[bet_field][i]
        odds == c.p[odds_field][i]
        r == get_true_odds_payout(index_to_point(i))
        c1 == Release(WinAmount(c, checked_add(bet, bet)), <<bet_field, i>>,
                      PASS_LINE_PAYOUT_NUM, PASS_LINE_PAYOUT_DEN)
        c2 == IF odds > 0
              THEN ReleaseClear(Win(c1, odds, r[1], r[2]), <<odds_field, i>>, r[1], r[2])
              ELSE c1
    IN  Clear(c2, <<bet_field, i>>)

\* ... and when it loses: bet and odds are lost together.
come_pair_lose(c, bet_field, odds_field, i) ==
    LET bet == c.p[bet_field][i]
        odds == c.p[odds_field][i]
        r == get_true_odds_payout(index_to_point(i))
        c1 == Release(Lose(c, checked_add(bet, odds)), <<bet_field, i>>,
                      PASS_LINE_PAYOUT_NUM, PASS_LINE_PAYOUT_DEN)
        c2 == IF odds > 0 THEN Release(c1, <<odds_field, i>>, r[1], r[2]) ELSE c1
    IN  Clear(Clear(c2, <<bet_field, i>>), <<odds_field, i>>)

settle_come(c, dice_sum, i) ==
    IF c.p.come_bets[i] = 0 THEN c
    ELSE IF dice_sum = index_to_point(i) THEN come_pair_win(c, "come_bets", "come_odds", i)
    ELSE IF dice_sum = 7 THEN come_pair_lose(c, "come_bets", "come_odds", i)
    ELSE c

settle_dont_come(c, dice_sum, i) ==
    IF c.p.dont_come_bets[i] = 0 THEN c
    ELSE IF dice_sum = 7 THEN come_pair_win(c, "dont_come_bets", "dont_come_odds", i)
    ELSE IF dice_sum = index_to_point(i)
    THEN come_pair_lose(c, "dont_come_bets", "dont_come_odds", i)
    ELSE c

\* for i in 0..NUM_POINTS
RECURSIVE settle_come_bets(_, _, _)
settle_come_bets(c, dice_sum, i) ==
    IF i >= NUM_POINTS \/ c.err THEN c
    ELSE settle_come_bets(settle_dont_come(settle_come(c, dice_sum, i), dice_sum, i),
                          dice_sum, i + 1)

\* A line bet paid 1:1 (the payout is the stake itself).
line_win(c, slot) ==
    IF Stake(c.p, slot) > 0
    THEN ReleaseClear(WinAmount(c, checked_add(Stake(c.p, slot), Stake(c.p, slot))),
                      slot, PASS_LINE_PAYOUT_NUM, PASS_LINE_PAYOUT_DEN)
    ELSE c

line_lose(c, slot) ==
    IF Stake(c.p, slot) > 0
    THEN ReleaseClear(Lose(c, Stake(c.p, slot)), slot,
                      PASS_LINE_PAYOUT_NUM, PASS_LINE_PAYOUT_DEN)
    ELSE c

\* Don't Pass on a come-out craps: pushed on 12, paid 1:1 on 2 or 3.
dont_pass_craps(c, dice_sum) ==
    IF c.p.dont_pass > 0
    THEN ReleaseClear(IF dice_sum = 12 THEN WinAmount(c, c.p.dont_pass)
                      ELSE WinAmount(c, checked_add(c.p.dont_pass, c.p.dont_pass)),
                      <<"dont_pass", 0>>, PASS_LINE_PAYOUT_NUM, PASS_LINE_PAYOUT_DEN)
    ELSE c

settle_come_out(c, dice_sum) ==
    IF is_natural(dice_sum)
    THEN line_lose(line_win(c, <<"pass_line", 0>>), <<"dont_pass", 0>>)
    ELSE IF is_craps(dice_sum)
    THEN dont_pass_craps(line_lose(c, <<"pass_line", 0>>), dice_sum)
    ELSE IF is_point_number(dice_sum)
    THEN SetP(SetG(c, set_point(c.g, dice_sum)),
              IF c.p.mugsy_bet > 0 THEN set_mugsy_point_phase(c.p) ELSE c.p)
    ELSE c

\* The odds of a line bet, paid at win_r; the reservation is released at the
\* true odds of the point.
line_odds_win(c, odds_slot, point, win_r) ==
    IF Stake(c.p, odds_slot) > 0
    THEN ReleaseClear(Win(c, Stake(c.p, odds_slot), win_r[1], win_r[2]), odds_slot,
                      get_true_odds_payout(point)[1], get_true_odds_payout(point)[2])
    ELSE c

line_odds_release(c, odds_slot, point) ==
    IF Stake(c.p, odds_slot) > 0
    THEN Release(c, odds_slot, get_true_odds_payout(point)[1],
                 get_true_odds_payout(point)[2])
    ELSE c

line_release(c, slot) == Release(c, slot, PASS_LINE_PAYOUT_NUM, PASS_LINE_PAYOUT_DEN)

line_win_amount(c, slot) == WinAmount(c, checked_add(Stake(c.p, slot), Stake(c.p, slot)))

\* Pass Line and its odds when the point is made.
pass_point_hit(c, point) ==
    IF c.p.pass_line > 0
    THEN Clear(line_odds_win(line_release(line_win_amount(c, <<"pass_line", 0>>),
                                          <<"pass_line", 0>>),
                             <<"pass_odds", 0>>, point, get_true_odds_payout(point)),
               <<"pass_line", 0>>)
    ELSE c

\* A line bet lost together with its odds.
line_pair_lose(c, slot, odds_slot, point) ==
    IF Stake(c.p, slot) > 0
    THEN Clear(Clear(line_odds_release(
                         line_release(Lose(c, checked_add(Stake(c.p, slot),
                                                          Stake(c.p, odds_slot))),
                                      slot),
                         odds_slot, point),
                     slot),
               odds_slot)
    ELSE c

\* Fire, Replay and Ride the Line count the point that was made.
record_point_made(p, point) ==
    LET fire == IF p.fire_bet > 0 THEN record_fire_point(p, point).fire_points_made
                ELSE p.fire_points_made
        replay == IF p.replay_bet > 0 THEN record_replay_point(p, point).replay_counts
                  ELSE p.replay_counts
        ride == IF p.ride_the_line_bet > 0 THEN record_ride_win(p).ride_wins_count
                ELSE p.ride_wins_count
    IN  [p EXCEPT !.fire_points_made = fire, !.replay_counts = replay,
                  !.ride_wins_count = ride]

point_made(c, point) ==
    IF c.err THEN c
    ELSE [c EXCEPT !.g = clear_point(@), !.p = record_point_made(@, point)]

settle_point_hit(c, point) ==
    point_made(line_pair_lose(pass_point_hit(c, point),
                              <<"dont_pass", 0>>, <<"dont_pass_odds", 0>>, point),
               point)

\* Don't Pass and its odds on the seven-out; the odds are paid at the
\* inverse true odds and released at the true odds.
dont_pass_seven_out(c, point) ==
    IF c.p.dont_pass > 0
    THEN ReleaseClear(line_odds_win(line_win_amount(c, <<"dont_pass", 0>>),
                                    <<"dont_pass_odds", 0>>, point,
                                    get_dont_true_odds_payout(point)),
                      <<"dont_pass", 0>>, PASS_LINE_PAYOUT_NUM, PASS_LINE_PAYOUT_DEN)
    ELSE c

\* A shooter bet on the seven-out: paid at win_r when won, else lost;
\* released at its largest ratio (the stake is cleared by reset_for_epoch).
shooter_seven_out(c, slot, won, win_r, rel_num, rel_den) ==
    IF Stake(c.p, slot) > 0
    THEN Release(IF won THEN Win(c, Stake(c.p, slot), win_r[1], win_r[2])
                 ELSE Lose(c, Stake(c.p, slot)),
                 slot, rel_num, rel_den)
    ELSE c

fire_seven_out(c) ==
    shooter_seven_out(c, <<"fire_bet", 0>>, fire_points_count(c.p) >= 4,
                      get_fire_bet_payout(fire_points_count(c.p)),
                      FIRE_6_POINTS_PAYOUT_NUM, FIRE_6_POINTS_PAYOUT_DEN)

ride_seven_out(c) ==
    shooter_seven_out(c, <<"ride_the_line_bet", 0>>, c.p.ride_wins_count >= 3,
                      get_ride_the_line_payout(c.p.ride_wins_count),
                      RIDE_11_WINS_PAYOUT_NUM, RIDE_11_WINS_PAYOUT_DEN)

replay_seven_out(c) ==
    shooter_seven_out(c, <<"replay_bet", 0>>, max_replay_count(c.p) >= 3,
                      get_replay_bet_payout(c.p.replay_counts),
                      REPLAY_4_10_4X_PAYOUT_NUM, REPLAY_4_10_4X_PAYOUT_DEN)

\* start_new_epoch, then reset_for_epoch with the new epoch id.
new_epoch(c, round_id) ==
    IF c.err THEN c
    ELSE [c EXCEPT !.g = start_new_epoch(@, round_id),
                   !.p = reset_for_epoch(@, start_new_epoch(c.g, round_id).epoch_id)]

settle_seven_out(c, point, round_id) ==
    new_epoch(replay_seven_out(ride_seven_out(fire_seven_out(
                  dont_pass_seven_out(
                      line_pair_lose(c, <<"pass_line", 0>>, <<"pass_odds", 0>>, point),
                      point)))),
              round_id)

settle_point_phase(c, dice_sum, point, round_id) ==
    IF dice_sum = point THEN settle_point_hit(c, point)
    ELSE IF dice_sum = 7 THEN settle_seven_out(c, point, round_id)
    ELSE c

\* is_come_out and current_point are read once, before the line bets.
settle_line_bets(c, dice_sum, round_id) ==
    IF c.err THEN c
    ELSE IF is_coming_out(c.g) THEN settle_come_out(c, dice_sum)
    ELSE settle_point_phase(c, dice_sum,
                            IF get_point(c.g) = None THEN 0 ELSE get_point(c.g),
                            round_id)

\* checked_add(..).unwrap_or(0): an overflowing refund subtotal restarts at 0.
add_or_zero(a, b) == IF checked_add(a, b) = None THEN 0 ELSE a + b

\* The scalar stakes the stale-epoch path refunds, in the order it adds them.
RefundScalars ==
    <<"pass_line", "dont_pass", "pass_odds", "dont_pass_odds", "field_bet",
      "any_seven", "any_craps", "yo_eleven", "aces", "twelve", "bonus_small",
      "bonus_tall", "bonus_all">>

RECURSIVE refund_scalars(_, _, _)
refund_scalars(p, i, acc) ==
    IF i > Len(RefundScalars) THEN acc
    ELSE refund_scalars(p, i + 1,
                        IF i = 1 THEN p[RefundScalars[1]]
                        ELSE add_or_zero(acc, p[RefundScalars[i]]))

\* The array stakes it refunds (iter().sum() of each, added with +).
array_total(p) ==
    SumTo(p.come_bets, 5) + SumTo(p.come_odds, 5) + SumTo(p.dont_come_bets, 5)
    + SumTo(p.dont_come_odds, 5) + SumTo(p.place_bets, 5) + SumTo(p.yes_bets, 10)
    + SumTo(p.no_bets, 10) + SumTo(p.next_bets, 10) + SumTo(p.hardways, 3)

\* A refund that forgets the stakes held in the arrays.
refund_scalars_only(p) == refund_scalars(p, 1, 0)

total_refund(p) ==
    IF checked_add(refund_scalars(p, 1, 0), array_total(p)) = None
    THEN refund_scalars(p, 1, 0)
    ELSE refund_scalars(p, 1, 0) + array_total(p)

\* The position a settle of an old-epoch position leaves: stakes refunded to
\* pending_winnings, the listed stakes cleared, epoch and round overwritten.
settle_stale_epoch(g, p, round_id) ==
    LET pending == IF total_refund(p) > 0
                      /\ checked_add(p.pending_winnings, total_refund(p)) # None
                   THEN p.pending_winnings + total_refund(p)
                   ELSE p.pending_winnings
    IN  clear_bonus_bets(
            [p EXCEPT !.pending_winnings = pending,
                      !.epoch_id = g.epoch_id,
                      !.last_updated_round = round_id,
                      !.pass_line = 0, !.dont_pass = 0, !.pass_odds = 0,
                      !.dont_pass_odds = 0, !.field_bet = 0, !.any_seven = 0,
                      !.any_craps = 0, !.yo_eleven = 0, !.aces = 0, !.twelve = 0,
                      !.come_bets = ZeroPoints, !.come_odds = ZeroPoints,
                      !.dont_come_bets = ZeroPoints, !.dont_come_odds = ZeroPoints,
                      !.place_bets = ZeroPoints, !.yes_bets = ZeroSums,
                      !.no_bets = ZeroSums, !.next_bets = ZeroSums,
                      !.hardways = ZeroHard])

has_any_bets(p) ==
    \/ p.pass_line > 0 \/ p.dont_pass > 0 \/ p.pass_odds > 0 \/ p.dont_pass_odds > 0
    \/ p.field_bet > 0 \/ p.any_seven > 0 \/ p.any_craps > 0 \/ p.yo_eleven > 0
    \/ p.aces > 0 \/ p.twelve > 0
    \/ p.bonus_small > 0 \/ p.bonus_tall > 0 \/ p.bonus_all > 0
    \/ p.fire_bet > 0 \/ p.diff_doubles_bet > 0 \/ p.ride_the_line_bet > 0
    \/ p.mugsy_bet > 0 \/ p.hot_hand_bet > 0 \/ p.replay_bet > 0
    \/ AnyPositive(p.fielders_choice) \/ AnyPositive(p.hardways)
    \/ AnyPositive(p.place_bets) \/ AnyPositive(p.yes_bets)
    \/ AnyPositive(p.no_bets) \/ AnyPositive(p.next_bets)
    \/ AnyPositive(p.come_bets) \/ AnyPositive(p.come_odds)
    \/ AnyPositive(p.dont_come_bets) \/ AnyPositive(p.dont_come_odds)

\* Every bet section of settle_craps in program order.
settle_single_roll(c, dice_sum) ==
    settle_next_bets(
        settle_twelve(settle_aces(settle_yo_eleven(settle_any_craps(
            settle_any_seven(settle_field(c, dice_sum), dice_sum),
            dice_sum), dice_sum), dice_sum), dice_sum),
        dice_sum, 0)

settle_side_bets(c, winning_square, dice_sum) ==
    settle_mugsy(
        settle_hot_hand(
            settle_diff_doubles(
                settle_fielders_choice(settle_bonus(c, dice_sum), dice_sum, 0),
                dice_sum, square_to_dice(winning_square)[1],
                square_to_dice(winning_square)[2]),
            dice_sum),
        dice_sum)

settle_standing_bets(c, winning_square, dice_sum) ==
    settle_come_bets(
        settle_no_bets(
            settle_yes_bets(
                settle_place_bets(settle_hardways(c, winning_square, 0), dice_sum),
                dice_sum, 0),
            dice_sum, 0),
        dice_sum, 0)

settle_bets(g, p, round, winning_square) ==
    settle_line_bets(
        settle_standing_bets(
            settle_side_bets(
                settle_single_roll(Ctx(g, p), square_to_dice_sum(winning_square)),
                winning_square, square_to_dice_sum(winning_square)),
            winning_square, square_to_dice_sum(winning_square)),
        square_to_dice_sum(winning_square), round.id)

\* Position tracking and the game totals after the bets are resolved.
settle_tracking(c, round_id) ==
    LET pending == checked_add(c.p.pending_winnings, c.tw)
        won == checked_add(c.p.total_won, c.tw)
        lost == checked_add(c.p.total_lost, c.tl)
        payouts == checked_add(c.g.total_payouts, c.tw)
        collected == checked_add(c.g.total_collected, c.tl)
    IN  IF c.err THEN c
        ELSE IF pending = None \/ won = None \/ lost = None
                \/ payouts = None \/ collected = None
        THEN [c EXCEPT !.err = TRUE]
        ELSE [c EXCEPT !.p = [@ EXCEPT !.pending_winnings = pending,
                                       !.total_won = won, !.total_lost = lost,
                                       !.last_updated_round = round_id],
                       !.g = [@ EXCEPT !.total_payouts = payouts,
                                       !.total_collected = collected]]

\* The end of settle_craps with the unpaid part left in pending_winnings as
\* well as recorded as debt.
settle_net_keeps_pending(c) ==
    LET net_payout == c.tw - c.tl
        debt_amount == net_payout - c.g.house_bankroll
    IN  IF c.err THEN c
        ELSE IF c.tw > c.tl
        THEN IF c.g.house_bankroll >= net_payout
             THEN [c EXCEPT !.g.house_bankroll = @ - net_payout]
             ELSE [c EXCEPT !.g.house_bankroll = 0,
                            !.p.unpaid_debt = @ + debt_amount]
        ELSE [c EXCEPT !.g.house_bankroll = @ + (c.tl - c.tw)]

\* The end of settle_craps as it was before debt tracking: the call fails
\* when the house cannot pay the net payout.
settle_net_fails_insolvent(c) ==
    LET net_payout == c.tw - c.tl
    IN  IF c.err THEN c
        ELSE IF c.tw > c.tl
        THEN IF c.g.house_bankroll >= net_payout
             THEN [c EXCEPT !.g.house_bankroll = @ - net_payout]
             ELSE [c EXCEPT !.err = TRUE]
        ELSE [c EXCEPT !.g.house_bankroll = @ + (c.tl - c.tw)]

\* The house pays the net payout, or as much of it as it has.
settle_net(c) ==
    LET net_payout == c.tw - c.tl
        debt_amount == net_payout - c.g.house_bankroll
        debt == checked_add(c.p.unpaid_debt, debt_amount)
        gain == checked_add(c.g.house_bankroll, c.tl - c.tw)
    IN  IF c.err THEN c
        ELSE IF c.tw > c.tl
        THEN IF c.g.house_bankroll >= net_payout
             THEN [c EXCEPT !.g.house_bankroll = @ - net_payout]
             ELSE IF debt = None THEN [c EXCEPT !.err = TRUE]
             ELSE [c EXCEPT !.g.house_bankroll = 0,
                            !.p.unpaid_debt = debt,
                            !.p.pending_winnings =
                                IF @ >= debt_amount THEN @ - debt_amount ELSE @]
        ELSE IF gain = None THEN [c EXCEPT !.err = TRUE]
        ELSE [c EXCEPT !.g.house_bankroll = gain]

\* The whole of a settle that reaches the bet sections.
settle_full(g, p, round, winning_square) ==
    settle_net(settle_tracking(settle_bets(g, p, round, winning_square), round.id))

\* What settle_craps returns after the bet sections ran.
settle_result(c, g, p) ==
    IF c.err THEN Result("ArithmeticOverflow", g, p) ELSE Result("Ok", c.g, c.p)

\* round is the account passed in: [id, square, expires_at]; square is None
\* while the round has no slot hash.
process_settle_craps(g, p, round, winning_square) ==
    IF round.square = None THEN Result("InvalidAccountData", g, p)
    ELSE IF round.square # winning_square THEN Result("InvalidArgument", g, p)
    ELSE IF ~g.created \/ ~p.created THEN Result("UninitializedAccount", g, p)
    ELSE IF p.epoch_id # g.epoch_id
    THEN Result("Ok", g, settle_stale_epoch(g, p, round.id))
    ELSE IF ~(p.last_updated_round = 0 /\ round.id = 0)
            /\ p.last_updated_round >= round.id
    THEN Result("AlreadySettled", g, p)
    ELSE IF ~has_any_bets(p)
    THEN Result("Ok", g, [p EXCEPT !.last_updated_round = round.id])
    ELSE settle_result(settle_full(g, p, round, winning_square), g, p)

\* ------------------------------------------------------------------------
\* claim_craps_winnings (src/program/src/craps/claim.rs)
\* ------------------------------------------------------------------------
process_claim_craps_winnings(g, p, vault_balance) ==
    LET amount == p.pending_winnings
        payouts == checked_add(g.total_payouts, amount)
    IN  IF ~g.created \/ ~p.created THEN Result("UninitializedAccount", g, p)
        ELSE IF amount = 0 THEN Result("InvalidArgument", g, p)
        ELSE IF g.house_bankroll < amount THEN Result("InsufficientFunds", g, p)
        ELSE IF payouts = None THEN Result("ArithmeticOverflow", g, p)
        ELSE IF vault_balance < amount THEN Result("TokenInsufficientFunds", g, p)
        ELSE [Result("Ok",
                     [g EXCEPT !.house_bankroll = @ - amount, !.total_payouts = payouts],
                     [p EXCEPT !.pending_winnings = 0])
                EXCEPT !.transfer = 0 - amount]

\* ------------------------------------------------------------------------
\* claim_craps_debt (src/program/src/craps/claim_debt.rs)
\* ------------------------------------------------------------------------
\* A claim_craps_debt that pays the whole debt whatever the bankroll holds.
claim_debt_pays_all(g, p, vault_balance) ==
    [Result("Ok",
            [g EXCEPT !.house_bankroll = saturating_sub(@, p.unpaid_debt)],
            [p EXCEPT !.unpaid_debt = 0])
        EXCEPT !.transfer = 0 - p.unpaid_debt]

process_claim_craps_debt(g, p, vault_balance) ==
    LET debt_amount == p.unpaid_debt
        claimable_amount == IF g.house_bankroll >= debt_amount
                            THEN debt_amount ELSE g.house_bankroll
        payouts == checked_add(g.total_payouts, claimable_amount)
    IN  IF ~g.created \/ ~p.created THEN Result("UninitializedAccount", g, p)
        ELSE IF p.unpaid_debt = 0 THEN Result("Ok", g, p)
        ELSE IF claimable_amount = 0 THEN Result("Ok", g, p)
        ELSE IF vault_balance < claimable_amount
        THEN Result("TokenInsufficientFunds", g, p)
        ELSE IF payouts = None THEN Result("ArithmeticOverflow", g, p)
        ELSE [Result("Ok",
                     [g EXCEPT !.house_bankroll = @ - claimable_amount,
                               !.total_payouts = payouts],
                     [p EXCEPT !.unpaid_debt = @ - claimable_amount])
                EXCEPT !.transfer = 0 - claimable_amount]

\* ------------------------------------------------------------------------
\* force_settle_craps (src/program/src/craps/force_settle.rs)
\* ------------------------------------------------------------------------
force_has_any_bets(p) ==
    \/ p.pass_line > 0 \/ p.dont_pass > 0 \/ p.pass_odds > 0 \/ p.dont_pass_odds > 0
    \/ p.field_bet > 0 \/ p.any_seven > 0 \/ p.any_craps > 0 \/ p.yo_eleven > 0
    \/ p.aces > 0 \/ p.twelve > 0
    \/ AnyPositive(p.come_bets) \/ AnyPositive(p.place_bets)
    \/ AnyPositive(p.yes_bets) \/ AnyPositive(p.no_bets)
    \/ AnyPositive(p.next_bets) \/ AnyPositive(p.hardways)

\* The saturating sum of the forfeited stakes.
total_forfeited(p) ==
    LET total == p.pass_line + p.dont_pass + p.pass_odds + p.dont_pass_odds
                 + p.field_bet + p.any_seven + p.any_craps + p.yo_eleven
                 + p.aces + p.twelve + array_total(p)
    IN  IF total > U64_MAX THEN U64_MAX ELSE total

force_clear_bets(p) ==
    [p EXCEPT !.pass_line = 0, !.dont_pass = 0, !.pass_odds = 0,
              !.dont_pass_odds = 0, !.field_bet = 0, !.any_seven = 0,
              !.any_craps = 0, !.yo_eleven = 0, !.aces = 0, !.twelve = 0,
              !.come_bets = ZeroPoints, !.come_odds = ZeroPoints,
              !.dont_come_bets = ZeroPoints, !.dont_come_odds = ZeroPoints,
              !.place_bets = ZeroPoints, !.yes_bets = ZeroSums,
              !.no_bets = ZeroSums, !.next_bets = ZeroSums, !.hardways = ZeroHard]

\* A force_settle_craps that already accepts the round in its expiry slot.
force_settle_at_expiry(g, p, round, winning_square, clock_slot) ==
    IF ~g.created \/ ~p.created THEN Result("UninitializedAccount", g, p)
    ELSE IF clock_slot < round.expires_at THEN Result("RoundNotExpired", g, p)
    ELSE IF ~force_has_any_bets(p) THEN Result("Ok", g, p)
    ELSE Result("Ok",
                [g EXCEPT !.total_collected = saturating_add(@, total_forfeited(p))],
                [force_clear_bets(p) EXCEPT
                    !.total_lost = saturating_add(@, total_forfeited(p)),
                    !.last_updated_round = round.id])

process_force_settle_craps(g, p, round, winning_square, clock_slot) ==
    IF ~g.created \/ ~p.created THEN Result("UninitializedAccount", g, p)
    ELSE IF round.square = None THEN Result("InvalidAccountData", g, p)
    ELSE IF round.square # winning_square THEN Result("InvalidArgument", g, p)
    ELSE IF clock_slot <= round.expires_at THEN Result("RoundNotExpired", g, p)
    ELSE IF ~force_has_any_bets(p) THEN Result("Ok", g, p)
    ELSE Result("Ok",
                [g EXCEPT !.reserved_payouts =
                            saturating_sub(@, saturating_mul(total_forfeited(p), 2)),
                          !.total_collected = saturating_add(@, total_forfeited(p))],
                [force_clear_bets(p) EXCEPT
                    !.total_lost = saturating_add(@, total_forfeited(p)),
                    !.last_updated_round = round.id])

\* ------------------------------------------------------------------------
\* fund_craps_house (src/program/src/craps/fund_house.rs)
\* ------------------------------------------------------------------------
process_fund_craps_house(g0, amount) ==
    LET g == load_game(g0)
    IN  IF amount = 0 THEN Result("InvalidArgument", g0, ZeroPosition)
        ELSE IF checked_add(g.house_bankroll, amount) = None
        THEN Result("ArithmeticOverflow", g0, ZeroPosition)
        ELSE [Result("Ok", [g EXCEPT !.house_bankroll = @ + amount], ZeroPosition)
                EXCEPT !.transfer = amount]


\* ------------------------------------------------------------------------
\* Single-roll helpers (src/program/src/settle_single_roll.rs)
\* Ok((total_return, is_winner)) is <<total_return, is_winner>>; the
\* ArithmeticOverflow error is None.
\* ------------------------------------------------------------------------
calculate_field_payout(bet_amount, dice_sum) ==
    IF ~is_field_winner(dice_sum) THEN <<0, FALSE>>
    ELSE IF checked_add(bet_amount,
                        IF dice_sum = 2 \/ dice_sum = 12
                        THEN calculate_payout(bet_amount, FIELD_PAYOUT_2_12_NUM,
                                              FIELD_PAYOUT_2_12_DEN)
                        ELSE calculate_payout(bet_amount, FIELD_PAYOUT_NORMAL_NUM,
                                              FIELD_PAYOUT_NORMAL_DEN)) = None
    THEN None
    ELSE <<bet_amount + (IF dice_sum = 2 \/ dice_sum = 12
                         THEN calculate_payout(bet_amount, FIELD_PAYOUT_2_12_NUM,
                                               FIELD_PAYOUT_2_12_DEN)
                         ELSE calculate_payout(bet_amount, FIELD_PAYOUT_NORMAL_NUM,
                                               FIELD_PAYOUT_NORMAL_DEN)), TRUE>>

calculate_any_seven_payout(bet_amount, dice_sum) ==
    IF dice_sum # 7 THEN <<0, FALSE>>
    ELSE IF checked_add(bet_amount, calculate_payout(bet_amount, ANY_SEVEN_PAYOUT_NUM,
                                                     ANY_SEVEN_PAYOUT_DEN)) = None
    THEN None
    ELSE <<bet_amount + calculate_payout(bet_amount, ANY_SEVEN_PAYOUT_NUM,
                                         ANY_SEVEN_PAYOUT_DEN), TRUE>>

calculate_any_craps_payout(bet_amount, dice_sum) ==
    IF ~is_craps(dice_sum) THEN <<0, FALSE>>
    ELSE IF checked_add(bet_amount, calculate_payout(bet_amount, ANY_CRAPS_PAYOUT_NUM,
                                                     ANY_CRAPS_PAYOUT_DEN)) = None
    THEN None
    ELSE <<bet_amount + calculate_payout(bet_amount, ANY_CRAPS_PAYOUT_NUM,
                                         ANY_CRAPS_PAYOUT_DEN), TRUE>>

calculate_yo_payout(bet_amount, dice_sum) ==
    IF dice_sum # 11 THEN <<0, FALSE>>
    ELSE IF checked_add(bet_amount, calculate_payout(bet_amount, YO_ELEVEN_PAYOUT_NUM,
                                                     YO_ELEVEN_PAYOUT_DEN)) = None
    THEN None
    ELSE <<bet_amount + calculate_payout(bet_amount, YO_ELEVEN_PAYOUT_NUM,
                                         YO_ELEVEN_PAYOUT_DEN), TRUE>>

calculate_aces_payout(bet_amount, dice_sum) ==
    IF dice_sum # 2 THEN <<0, FALSE>>
    ELSE IF checked_add(bet_amount, calculate_payout(bet_amount, ACES_PAYOUT_NUM,
                                                     ACES_PAYOUT_DEN)) = None
    THEN None
    ELSE <<bet_amount + calculate_payout(bet_amount, ACES_PAYOUT_NUM,
                                         ACES_PAYOUT_DEN), TRUE>>

calculate_twelve_payout(bet_amount, dice_sum) ==
    IF dice_sum # 12 THEN <<0, FALSE>>
    ELSE IF checked_add(bet_amount, calculate_payout(bet_amount, TWELVE_PAYOUT_NUM,
                                                     TWELVE_PAYOUT_DEN)) = None
    THEN None
    ELSE <<bet_amount + calculate_payout(bet_amount, TWELVE_PAYOUT_NUM,
                                         TWELVE_PAYOUT_DEN), TRUE>>
\* ------------------------------------------------------------------------
\* The state machine
\* ------------------------------------------------------------------------
\* Inputs the callers choose from.  A bet is <<bet_type, point>>.
BetMenu == {<<0, 0>>, <<2, 0>>, <<8, 4>>, <<10, 0>>}
Amounts == {1}
FundAmounts == {3}
\* Winning squares the rounds end on: 2 is 1+3, 5 is 1+6.
Squares == {2, 5}

VARIABLES
    game,       \* the CrapsGame account
    pos,        \* the CrapsPosition account of each player
    vault,      \* token balance of the vault's token account
    rounds,     \* the finalized Round accounts; round id r is rounds[r + 1]
    slot,       \* the clock
    nbets,      \* place_craps_bet calls that succeeded
    nfunds,     \* fund_craps_house calls that succeeded
    settled,    \* history: <<player, round id>> of every settle that returned Ok
    resv,       \* history: what place_craps_bet reserved for the stake now in each slot
    last        \* history: the last call, when it was a settle, claim or force settle that took effect

vars == <<game, pos, vault, rounds, slot, nbets, nfunds, settled, resv, last>>

RoundIds == {r - 1 : r \in DOMAIN rounds}

Round(r) == rounds[r + 1]

NoCall == [op |-> "none", player |-> 0, round |-> None, path |-> "none",
           insolvent |-> FALSE, caller |-> 0]

\* The record of a call by caller on the position of player p.
Call(op, caller, p, r) == [NoCall EXCEPT !.op = op, !.caller = caller,
                                         !.player = p, !.round = r]

\* resv[p] maps the slots that hold a stake to what was reserved for it.
ZeroResv == [s \in {} |-> 0]

ResvOf(rv, s) == IF s \in DOMAIN rv THEN rv[s] ELSE 0

\* The reservation history after a call left position q: a slot whose stake
\* is gone has no reservation of its own any more.
KeepResv(rv, q) == [s \in {t \in DOMAIN rv : Stake(q, t) # 0} |-> rv[s]]

\* ... and after place_craps_bet reserved max_payout for more stake in slot s.
AddResv(rv, s, max_payout) ==
    [t \in DOMAIN rv \cup {s} |-> IF t = s THEN ResvOf(rv, s) + max_payout ELSE rv[t]]

Init ==
    /\ game = EmptyCrapsGame
    /\ pos = [p \in Players |-> ZeroPosition]
    /\ vault = 0
    /\ rounds = <<>>
    /\ slot = 0
    /\ nbets = 0
    /\ nfunds = 0
    /\ settled = {}
    /\ resv = [p \in Players |-> ZeroResv]
    /\ last = NoCall

\* fund_craps_house by anyone.
FundHouse(amount) ==
    LET r == process_fund_craps_house(game, amount)
    IN  /\ nfunds < MaxFunds
        /\ r.res = "Ok"
        /\ game' = r.game
        /\ vault' = vault + r.transfer
        /\ nfunds' = nfunds + 1
        /\ last' = NoCall
        /\ UNCHANGED <<pos, rounds, slot, nbets, settled, resv>>

\* place_craps_bet by player p.
PlaceBet(p, bet, amount) ==
    LET r == process_place_craps_bet(game, pos[p], bet[1], bet[2], amount)
        s == bet_slot(load_game(game), load_position(load_game(game), pos[p]),
                      bet[1], bet[2])
    IN  /\ r.res = "Ok"
        /\ game' = r.game
        /\ pos' = [pos EXCEPT ![p] = r.pos]
        /\ vault' = vault + r.transfer
        /\ nbets' = nbets + 1
        /\ resv' = [resv EXCEPT ![p] =
                      AddResv(KeepResv(resv[p], load_position(load_game(game), pos[p])),
                              s, calculate_max_payout(bet[1], bet[2], amount))]
        /\ last' = NoCall
        /\ UNCHANGED <<rounds, slot, nfunds, settled>>

\* Which of its three ways through a successful settle_craps took.
settle_path(g, p) ==
    IF p.epoch_id # g.epoch_id THEN "stale"
    ELSE IF ~has_any_bets(p) THEN "empty"
    ELSE "full"

\* Whether a full settle finds the house unable to pay the net payout.
net_exceeds(c, bankroll) == ~c.err /\ c.tw - c.tl > bankroll

settle_insolvent(g, p, round) ==
    /\ settle_path(g, p) = "full"
    /\ net_exceeds(settle_bets(g, p, round, round.square), g.house_bankroll)

\* The accounts a successful settle_craps leaves are committed.
SettleCommit(p, r, res) ==
    /\ res.res = "Ok"
    /\ game' = res.game
    /\ pos' = [pos EXCEPT ![p] = res.pos]
    /\ settled' = settled \cup {<<p, r>>}
    /\ resv' = [resv EXCEPT ![p] = KeepResv(resv[p], res.pos)]

\* settle_craps by player p for the finalized round r.
Settle(p, r) ==
    /\ SettleCommit(p, r, process_settle_craps(game, pos[p], Round(r), Round(r).square))
    /\ last' = [Call("settle", p, p, r) EXCEPT
                    !.path = settle_path(game, pos[p]),
                    !.insolvent = settle_insolvent(game, pos[p], Round(r))]
    /\ UNCHANGED <<vault, rounds, slot, nbets, nfunds>>

\* claim_craps_winnings by player p.
ClaimWinnings(p) ==
    LET r == process_claim_craps_winnings(game, pos[p], vault)
    IN  /\ r.res = "Ok"
        /\ game' = r.game
        /\ pos' = [pos EXCEPT ![p] = r.pos]
        /\ vault' = vault + r.transfer
        /\ last' = Call("claim", p, p, None)
        /\ UNCHANGED <<rounds, slot, nbets, nfunds, settled, resv>>

\* claim_craps_debt by player p.
ClaimDebt(p) ==
    LET r == process_claim_craps_debt(game, pos[p], vault)
    IN  /\ r.res = "Ok"
        /\ game' = r.game
        /\ pos' = [pos EXCEPT ![p] = r.pos]
        /\ vault' = vault + r.transfer
        /\ last' = IF r.transfer # 0 THEN Call("debt", p, p, None) ELSE NoCall
        /\ UNCHANGED <<rounds, slot, nbets, nfunds, settled, resv>>

\* force_settle_craps by any signer, on the position of player p, for round r.
ForceSettle(caller, p, r) ==
    LET res == process_force_settle_craps(game, pos[p], Round(r), Round(r).square, slot)
    IN  /\ res.res = "Ok"
        /\ game' = res.game
        /\ pos' = [pos EXCEPT ![p] = res.pos]
        /\ resv' = [resv EXCEPT ![p] = KeepResv(resv[p], res.pos)]
        /\ last' = IF res.pos # pos[p] THEN Call("force", caller, p, r) ELSE NoCall
        /\ UNCHANGED <<vault, rounds, slot, nbets, nfunds, settled>>

\* The round program finalizes the next round on a winning square.
FinalizeRound(square) ==
    /\ Len(rounds) < MaxRounds
    /\ rounds' = Append(rounds, [id |-> Len(rounds), square |-> square,
                                 expires_at |-> slot])
    /\ last' = NoCall
    /\ UNCHANGED <<game, pos, vault, slot, nbets, nfunds, settled, resv>>

\* The clock advances.
Tick ==
    /\ slot < MaxSlot
    /\ slot' = slot + 1
    /\ last' = NoCall
    /\ UNCHANGED <<game, pos, vault, rounds, nbets, nfunds, settled, resv>>

Next ==
    \/ \E amount \in FundAmounts : FundHouse(amount)
    \/ \E p \in Players, bet \in BetMenu, amount \in Amounts :
            nbets < MaxBets /\ PlaceBet(p, bet, amount)
    \/ \E p \in Players, r \in RoundIds : Settle(p, r)
    \/ \E p \in Players : ClaimWinnings(p)
    \/ \E p \in Players : ClaimDebt(p)
    \/ \E caller \in Players, p \in Players, r \in RoundIds : ForceSettle(caller, p, r)
    \/ \E square \in Squares : FinalizeRound(square)
    \/ Tick

Spec == Init /\ [][Next]_vars

\* Funding, placing and settling alone, with room for one more bet: stake can
\* build up in a slot of one player while another player holds a bet.
AccumMenu == {<<0, 0>>, <<8, 4>>}

NextAccum ==
    \/ \E amount \in FundAmounts : FundHouse(amount)
    \/ \E p \in Players, bet \in AccumMenu, amount \in Amounts :
            nbets < MaxAccumBets /\ PlaceBet(p, bet, amount)
    \/ \E p \in Players, r \in RoundIds : Settle(p, r)
    \/ \E square \in Squares : FinalizeRound(square)

SpecAccum == Init /\ [][NextAccum]_vars


\* Bets on the come and the don't come side, left to expire and be forfeited.
ForceMenu == {<<0, 0>>, <<4, 4>>, <<5, 4>>, <<6, 4>>}

NextForce ==
    \/ \E amount \in FundAmounts : FundHouse(amount)
    \/ \E p \in Players, bet \in ForceMenu, amount \in Amounts :
            nbets < MaxBets /\ PlaceBet(p, bet, amount)
    \/ \E caller \in Players, p \in Players, r \in RoundIds : ForceSettle(caller, p, r)
    \/ \E square \in Squares : FinalizeRound(square)
    \/ Tick

SpecForce == Init /\ [][NextForce]_vars

\* Ledgers whose counters have come close to the top of the u64 range: each
\* player holds one pass line stake of an epoch that may have ended, the
\* counters are 0 or at the top.  One round is played on them.
NearMax == {0, U64_MAX}

HeldPosition(pending, lost) ==
    [ZeroPosition EXCEPT !.created = TRUE, !.epoch_id = 1, !.pass_line = 1,
                         !.total_wagered = 1, !.pending_winnings = pending,
                         !.total_lost = lost]

InitOverflow ==
    /\ \E epoch \in {1, 2}, collected \in NearMax :
            game = [NewCrapsGame EXCEPT !.epoch_id = epoch,
                                        !.house_bankroll = 2 * NumPlayers + 3,
                                        !.reserved_payouts = 2 * NumPlayers,
                                        !.total_collected = collected]
    /\ pos \in [Players -> {HeldPosition(0, 0), HeldPosition(U64_MAX, 0),
                             HeldPosition(0, U64_MAX)}]
    /\ vault = 2 * NumPlayers + 3
    /\ rounds = <<>>
    /\ slot = 0
    /\ nbets = NumPlayers
    /\ nfunds = 1
    /\ settled = {}
    /\ resv = [p \in Players |-> (<<"pass_line", 0>> :> 2)]
    /\ last = NoCall

NextOverflow ==
    \/ \E p \in Players, r \in RoundIds : Settle(p, r)
    \/ \E caller \in Players, p \in Players, r \in RoundIds : ForceSettle(caller, p, r)
    \/ \E square \in Squares : rounds = <<>> /\ FinalizeRound(square)
    \/ Tick

SpecOverflow == InitOverflow /\ [][NextOverflow]_vars

\* One round at a table funded with 1000: single-roll, pass line and place
\* bets, <<bet_type, point, amount>>, and a roll of 4, 5, 6 or 7.
TableFunds == {1000}
TableBets == {<<11, 0, 100>>, <<0, 0, 100>>, <<8, 6, 60>>, <<8, 4, 5>>, <<8, 5, 5>>,
              <<10, 0, 7>>, <<12, 0, 7>>, <<13, 0, 7>>, <<14, 0, 7>>, <<15, 0, 7>>}
\* 2 is 1+3, 3 is 1+4, 4 is 1+5, 5 is 1+6.
TableSquares == {2, 3, 4, 5}

NextTable ==
    \/ \E amount \in TableFunds : nfunds = 0 /\ FundHouse(amount)
    \/ \E p \in Players, bet \in TableBets :
            nbets < MaxBets /\ PlaceBet(p, <<bet[1], bet[2]>>, bet[3])
    \/ \E p \in Players, r \in RoundIds : Settle(p, r)
    \/ \E square \in TableSquares : rounds = <<>> /\ FinalizeRound(square)

SpecTable == Init /\ [][NextTable]_vars

\* A position that holds a different-doubles stake, with some doubles already
\* recorded, at a table that can pay it; rounds end on a 7 or on a double.
SideStakes == {1, 3}
SideHits == {{}, {1, 3}, {1, 3, 4}, {0, 1, 3, 4}, {0, 1, 2, 3, 4}}
\* 5 is 1+6; 7, 21, 28 and 35 are 2-2, 4-4, 5-5 and 6-6.
SideSquares == {5, 7, 21, 28, 35}

DoublesPosition(stake, hits) ==
    [ZeroPosition EXCEPT !.created = TRUE, !.epoch_id = 1,
                         !.diff_doubles_bet = stake, !.diff_doubles_hits = hits,
                         !.total_wagered = stake]

InitSide ==
    /\ game = [NewCrapsGame EXCEPT !.house_bankroll = 1000]
    /\ \E stake \in SideStakes, hits \in SideHits :
            pos = [p \in Players |-> IF p = 1 THEN DoublesPosition(stake, hits)
                                     ELSE ZeroPosition]
    /\ vault = 1000
    /\ rounds = <<>>
    /\ slot = 0
    /\ nbets = 1
    /\ nfunds = 1
    /\ settled = {}
    /\ resv = [p \in Players |-> ZeroResv]
    /\ last = NoCall

NextSide ==
    \/ \E p \in Players, r \in RoundIds : Settle(p, r)
    \/ \E square \in SideSquares : FinalizeRound(square)

SpecSide == InitSide /\ [][NextSide]_vars

\* A table in the come-out or on a point, where player 1 holds line stakes
\* (pass line, don't pass and their odds) or come stakes on one number (come,
\* don't come and their odds), as place_craps_bet leaves them; one round
\* ends on a 2, 4, 6, 7, 11 or 12.
LineStakes == {0, 10}
OddsStakes == {0, 30}
LinePoints == {0, 4, 5, 6, 8, 9, 10}
\* 0 is 1+1, 2 is 1+3, 9 is 2+4, 5 is 1+6, 29 is 5+6, 35 is 6+6.
LineSquares == {0, 2, 5, 9, 29, 35}

LinePosition(point, pass, pass_odds, dont, dont_odds) ==
    [ZeroPosition EXCEPT !.created = TRUE, !.epoch_id = 1,
                         !.pass_line = pass, !.pass_odds = pass_odds,
                         !.dont_pass = dont, !.dont_pass_odds = dont_odds,
                         !.total_wagered = pass + pass_odds + dont + dont_odds]

ComePosition(i, come, come_odds, dont, dont_odds) ==
    [ZeroPosition EXCEPT !.created = TRUE, !.epoch_id = 1,
                         !.come_bets[i] = come, !.come_odds[i] = come_odds,
                         !.dont_come_bets[i] = dont, !.dont_come_odds[i] = dont_odds,
                         !.total_wagered = come + come_odds + dont + dont_odds]

\* What place_craps_bet reserved for a line stake and for its odds on a point.
LineReserve(point, base, odds) ==
    (IF base > 0 THEN calculate_max_payout(0, 0, base) ELSE 0)
    + (IF odds > 0 THEN calculate_max_payout(2, point, odds) ELSE 0)

LineTable(point, q, reserved) ==
    /\ game = [NewCrapsGame EXCEPT !.point = point,
                                   !.is_come_out = IF point = 0 THEN 1 ELSE 0,
                                   !.house_bankroll = 1000 + q.total_wagered,
                                   !.reserved_payouts = reserved]
    /\ pos = [p \in Players |-> IF p = 1 THEN q ELSE ZeroPosition]
    /\ vault = 1000 + q.total_wagered

InitLine ==
    /\ \E point \in LinePoints, base \in LineStakes, odds \in OddsStakes,
          dont \in LineStakes, dont_odds \in OddsStakes :
        /\ base + dont > 0
        /\ odds > 0 => base > 0
        /\ dont_odds > 0 => dont > 0
        /\ \/ /\ odds + dont_odds > 0 => point # 0
              /\ LineTable(point, LinePosition(point, base, odds, dont, dont_odds),
                           LineReserve(point, base, odds)
                           + LineReserve(point, dont, dont_odds))
           \/ \E i \in PointIdx :
                /\ LineTable(point, ComePosition(i, base, odds, dont, dont_odds),
                             LineReserve(index_to_point(i), base, odds)
                             + LineReserve(index_to_point(i), dont, dont_odds))
    /\ rounds = <<>>
    /\ slot = 0
    /\ nbets = 1
    /\ nfunds = 1
    /\ settled = {}
    /\ resv = [p \in Players |-> ZeroResv]
    /\ last = NoCall

NextLine ==
    \/ \E p \in Players, r \in RoundIds : Settle(p, r)
    \/ \E square \in LineSquares : rounds = <<>> /\ FinalizeRound(square)

SpecLine == InitLine /\ [][NextLine]_vars

\* A long run at a small table: the house is funded with 4 and later with
\* 12, the bets come in the order of DebtBets, <<player, bet_type, point,
\* amount>>, and every round ends on 1+1.  Settles, claims and the two
\* fundings interleave freely with them.
DebtFunds == <<4, 12>>
DebtBets == <<<<1, 0, 0, 2>>, <<1, 0, 0, 4>>, <<1, 0, 0, 8>>, <<1, 0, 0, 16>>,
              <<1, 14, 0, 1>>, <<2, 14, 0, 1>>, <<1, 0, 0, 6>>>>
DebtSquares == {0}

NextDebt ==
    \/ nfunds < Len(DebtFunds) /\ FundHouse(DebtFunds[nfunds + 1])
    \/ /\ nbets < Len(DebtBets)
       /\ PlaceBet(DebtBets[nbets + 1][1],
                   <<DebtBets[nbets + 1][2], DebtBets[nbets + 1][3]>>,
                   DebtBets[nbets + 1][4])
    \/ \E p \in Players, r \in RoundIds : Settle(p, r)
    \/ \E p \in Players : ClaimWinnings(p)
    \/ \E p \in Players : ClaimDebt(p)
    \/ \E square \in DebtSquares : FinalizeRound(square)

SpecDebt == Init /\ [][NextDebt]_vars

\* Pass line bets and their odds, placed by both players over two rounds.
OddsMenu == {<<0, 0>>, <<2, 0>>}

NextOdds ==
    \/ \E amount \in FundAmounts : FundHouse(amount)
    \/ \E p \in Players, bet \in OddsMenu, amount \in Amounts :
            nbets < MaxAccumBets /\ PlaceBet(p, bet, amount)
    \/ \E p \in Players, r \in RoundIds : Settle(p, r)
    \/ \E square \in Squares : FinalizeRound(square)

SpecOdds == Init /\ [][NextOdds]_vars

\* ------------------------------------------------------------------------
\* Properties
\* ------------------------------------------------------------------------
\* The settle_craps call of player p for the finalized round r, on accounts g, q.
settle_call(g, q, r) == process_settle_craps(g, q, Round(r), Round(r).square)

\* Whether settle_craps would reject round id r for position q as settled.
already_settled(q, r) ==
    ~(q.last_updated_round = 0 /\ r = 0) /\ q.last_updated_round >= r

\* C1: once a settle call for round r has succeeded for a position, every
\* further settle call of that position for round r is rejected with
\* AlreadySettled and leaves the game and the position as they were, whatever
\* was placed in between.
C1_ResettleRejected ==
    \A sr \in settled :
        /\ settle_call(game, pos[sr[1]], sr[2]).res = "AlreadySettled"
        /\ settle_call(game, pos[sr[1]], sr[2]).game = game
        /\ settle_call(game, pos[sr[1]], sr[2]).pos = pos[sr[1]]

\* The releases a settle_craps call of player p for round r would make.
settle_log(p, r) == settle_bets(game, pos[p], Round(r), Round(r).square).log

ReleasesMatch(p, log) ==
    \A i \in DOMAIN log :
        log[i][2] > 0 => log[i][3] = ResvOf(resv[p], log[i][1])

\* C2: what a settle call takes off reserved_payouts for the stake of a slot
\* equals what the place_craps_bet calls that built that stake added to
\* reserved_payouts, for every slot, also for a stake accumulated by several
\* calls.
C2_ReleaseEqualsReservation ==
    \A p \in Players, r \in RoundIds :
        (/\ settle_call(game, pos[p], r).res = "Ok"
         /\ settle_path(game, pos[p]) = "full")
        => ReleasesMatch(p, settle_log(p, r))

\* The game and the two positions after a settles round r and then b does.
SettleThen(a, b, r) ==
    <<settle_call(settle_call(game, pos[a], r).game, pos[b], r).game,
      settle_call(game, pos[a], r).pos,
      settle_call(settle_call(game, pos[a], r).game, pos[b], r).pos>>

Swap(t) == <<t[1], t[3], t[2]>>

FullSettleDue(p, r) ==
    /\ settle_call(game, pos[p], r).res = "Ok"
    /\ settle_path(game, pos[p]) = "full"

\* C3: for two players whose positions both hold stakes of the current epoch
\* and are both due to settle round r, settling a then b leaves the same game
\* and the same two positions as settling b then a.
C3_SettleOrderIrrelevant ==
    \A a \in Players, b \in Players, r \in RoundIds :
        (a # b /\ FullSettleDue(a, r) /\ FullSettleDue(b, r))
        => SettleThen(a, b, r) = Swap(SettleThen(b, a, r))

\* Bets and stakes a caller may try, beyond those the model's callers place.
TryBets == BetMenu \cup {<<2, 4>>, <<1, 0>>, <<8, 6>>}
TryAmounts == {1, 2, 5}

\* The ratio a bet of the category can pay at worst: line odds pay the true
\* odds of the point the game is on, every other category pays what the
\* payout table says for the number it names.
worst_case_ratio(g, bet_type, point) ==
    IF bet_type = 2 /\ has_point(g) THEN get_true_odds_payout(g.point)
    ELSE max_payout_ratio(bet_type, point)

worst_case_payout(g, bet_type, point, amount) ==
    amount + ((amount * worst_case_ratio(g, bet_type, point)[1])
              \div Max(worst_case_ratio(g, bet_type, point)[2], 1))

\* C4: place_craps_bet succeeds only when the stake plus the worst payout of
\* its category fits in house_bankroll - reserved_payouts as the call finds
\* them; when it does not fit the call fails with InsufficientBankroll, which
\* records nothing.
C4_PlaceOnlyWhenCovered ==
    \A p \in Players, bet \in TryBets, amount \in TryAmounts :
        LET g == load_game(game)
            res == process_place_craps_bet(game, pos[p], bet[1], bet[2], amount).res
            covered == worst_case_payout(g, bet[1], bet[2], amount)
                       <= g.house_bankroll - g.reserved_payouts
        IN  /\ res = "Ok" => covered
            /\ ~covered => res = "InsufficientBankroll"

\* C5: reserved_payouts never exceeds house_bankroll.
C5_ReservedWithinBankroll == game.reserved_payouts <= game.house_bankroll

\* What an insolvent settle must leave, given the position before, the
\* result of the call and the winnings and losses of the call.
InsolventOutcome(g, q, res, tw, tl) ==
    /\ res.res = "Ok"
    /\ res.game.house_bankroll = 0
    /\ res.pos.unpaid_debt - q.unpaid_debt = (tw - tl) - g.house_bankroll
    /\ (res.pos.pending_winnings - q.pending_winnings)
       + (res.pos.unpaid_debt - q.unpaid_debt) = tw

\* C6: a settle call whose winnings less losses exceed house_bankroll
\* succeeds, leaves house_bankroll 0, adds the shortfall to unpaid_debt, and
\* pending_winnings and unpaid_debt together grow by the winnings.
C6_InsolventSettle ==
    \A p \in Players, r \in RoundIds :
        (/\ game.created /\ pos[p].created
         /\ ~already_settled(pos[p], r)
         /\ settle_insolvent(game, pos[p], Round(r)))
        => InsolventOutcome(game, pos[p], settle_call(game, pos[p], r),
                            settle_bets(game, pos[p], Round(r), Round(r).square).tw,
                            settle_bets(game, pos[p], Round(r), Round(r).square).tl)

\* A settle call has just left the house with nothing.
C6_Witness ==
    /\ last.op = "settle" /\ last.insolvent
    /\ game.house_bankroll = 0

\* Bankrolls a settle call may find.
TryBankrolls == {0, 1, game.house_bankroll}

\* C7: a settle call of a position of the current epoch that is not settled
\* for the round succeeds whatever house_bankroll is, 0 included.
C7_SettleNeverFailsOnShortfall ==
    \A p \in Players, r \in RoundIds, b \in TryBankrolls :
        (/\ game.created /\ pos[p].created
         /\ pos[p].epoch_id = game.epoch_id
         /\ ~already_settled(pos[p], r))
        => settle_call([game EXCEPT !.house_bankroll = b], pos[p], r).res = "Ok"

\* A settle call has just recorded a debt to the player it could not pay.
C7_Witness ==
    /\ last.op = "settle" /\ last.path = "full" /\ last.insolvent
    /\ pos[last.player].unpaid_debt > 0

\* The step is a settle call for a round that rolled 7, found in point phase.
SevenInPointPhase ==
    /\ last'.op = "settle"
    /\ square_to_dice_sum(Round(last'.round).square) = 7
    /\ ~is_coming_out(game)
    /\ game.created

\* C8: a settle call for a roll of 7 in point phase adds 1 to epoch_id, puts
\* the game in come-out with point 0, and leaves the settling position
\* without stakes and in the new epoch.
C8_SevenOutStartsEpoch ==
    [][SevenInPointPhase =>
        /\ game'.epoch_id = game.epoch_id + 1
        /\ game'.point = 0
        /\ game'.is_come_out = 1
        /\ ~has_any_bets(pos'[last'.player])
        /\ pos'[last'.player].epoch_id = game'.epoch_id]_vars

\* C9: point is 0 exactly in come-out, and is 0 or a point number.
C9_PointIffComeOut ==
    game.created =>
        /\ (game.point = 0 <=> game.is_come_out = 1)
        /\ game.point \in {0, 4, 5, 6, 8, 9, 10}

\* A settle call has just established a point.
C9_Witness ==
    /\ last.op = "settle"
    /\ game.point # 0
    /\ game.is_come_out = 0

\* C10: last_updated_round of a position never decreases.
C10_LastSettledMonotone ==
    [][\A p \in Players :
        pos'[p].last_updated_round >= pos[p].last_updated_round]_vars

\* ------------------------------------------------------------------------
\* Claims of winnings and of debt
\* ------------------------------------------------------------------------
Min(a, b) == IF a < b THEN a ELSE b

\* What claim_craps_winnings must do for position q.
ClaimOutcome(q, r) ==
    IF q.pending_winnings > 0
    THEN /\ r.res = "Ok"
         /\ r.pos.pending_winnings = 0
         /\ r.transfer = 0 - q.pending_winnings
    ELSE r.res # "Ok"

\* C11: claim_craps_winnings of a position with pending_winnings > 0 sets
\* pending_winnings to 0 and transfers exactly that amount to the player;
\* with pending_winnings = 0 it fails.
C11_ClaimPaysPending ==
    \A p \in Players :
        (game.created /\ pos[p].created)
        => ClaimOutcome(pos[p], process_claim_craps_winnings(game, pos[p], vault))

\* What claim_craps_debt must do for position q against game g.
DebtOutcome(g, q, r, due) ==
    /\ r.res = "Ok"
    /\ r.transfer = 0 - due
    /\ r.pos.unpaid_debt = q.unpaid_debt - due
    /\ r.game.house_bankroll = g.house_bankroll - due
    /\ (due = 0 => r.game = g /\ r.pos = q)

\* Debts a claim_craps_debt call may find on position q.
TryDebts(q) == {q.unpaid_debt, 2}

force_call(g, q, r, t) == process_force_settle_craps(g, q, Round(r), Round(r).square, t)

\* C13: force_settle_craps is rejected, and so changes nothing, while the
\* clock is at or before the round's expires_at; once the clock is past it,
\* the call of any signer on any position succeeds.
C13_ForceOnlyAfterExpiry ==
    \A caller \in Players, p \in Players, r \in RoundIds, t \in 0..MaxSlot :
        (game.created /\ pos[p].created)
        => IF t <= Round(r).expires_at
           THEN force_call(game, pos[p], r, t).res = "RoundNotExpired"
           ELSE force_call(game, pos[p], r, t).res = "Ok"

\* A signer has just forfeited the stakes of another player's position.
C13_Witness ==
    /\ last.op = "force"
    /\ last.caller # last.player
    /\ slot > Round(last.round).expires_at
    /\ ~force_has_any_bets(pos[last.player])
    /\ pos[last.player].total_lost > 0

\* The stake held in field f of position q, and in all the fields fs.
FieldStake(q, f) == IF f \in ArrayFields THEN SumTo(q[f], Cardinality(DOMAIN q[f]) - 1) ELSE q[f]

RECURSIVE StakeIn(_, _)
StakeIn(q, fs) ==
    IF fs = {} THEN 0
    ELSE FieldStake(q, CHOOSE f \in fs : TRUE)
         + StakeIn(q, fs \ {CHOOSE f \in fs : TRUE})

AllStakes(q) == StakeIn(q, ScalarFields \cup ArrayFields)

\* What a successful force_settle_craps must leave of game g and position q.
ForfeitOutcome(g, q, r) ==
    /\ AllStakes(r.pos) = 0
    /\ r.pos.total_lost = q.total_lost + AllStakes(q)
    /\ r.game.total_collected = g.total_collected + AllStakes(q)
    /\ r.pos.pending_winnings = q.pending_winnings
    /\ r.pos.unpaid_debt = q.unpaid_debt
    /\ r.game.house_bankroll = g.house_bankroll

\* C14: a successful force_settle_craps on a position that holds a stake in
\* any slot leaves every stake slot 0, adds the sum of the stakes to the
\* position's total_lost and the game's total_collected, and leaves
\* pending_winnings, unpaid_debt and house_bankroll as they were.
C14_ForceForfeitsEveryStake ==
    \A p \in Players, r \in RoundIds :
        (/\ game.created /\ pos[p].created
         /\ AllStakes(pos[p]) > 0
         /\ force_call(game, pos[p], r, slot).res = "Ok")
        => ForfeitOutcome(game, pos[p], force_call(game, pos[p], r, slot))

\* ------------------------------------------------------------------------
\* Settling a position of an older epoch
\* ------------------------------------------------------------------------
\* What settle_craps must leave of game g and old-epoch position q.
StaleOutcome(g, q, r) ==
    /\ r.res = "Ok"
    /\ r.pos.pending_winnings = q.pending_winnings + AllStakes(q)
    /\ AllStakes(r.pos) = 0
    /\ r.pos.epoch_id = g.epoch_id
    /\ r.pos.total_won = q.total_won
    /\ r.pos.total_lost = q.total_lost
    /\ r.pos.unpaid_debt = q.unpaid_debt
    /\ r.game = g

\* C15: settle_craps of a position whose epoch_id is not the game's adds the
\* sum of the position's stakes to pending_winnings, zeroes every stake slot,
\* moves the position to the game's epoch, resolves nothing against the dice
\* and leaves the game as it was.
C15_StaleSettleRefunds ==
    \A p \in Players, r \in RoundIds :
        (/\ game.created /\ pos[p].created
         /\ pos[p].epoch_id # game.epoch_id)
        => StaleOutcome(game, pos[p], settle_call(game, pos[p], r))

\* A settle call has just refunded the stake of a position left behind by a
\* seven-out.
C15_Witness ==
    /\ last.op = "settle" /\ last.path = "stale"
    /\ pos[last.player].epoch_id = game.epoch_id
    /\ pos[last.player].total_won = 0
    /\ pos[last.player].pending_winnings > 0
    /\ AllStakes(pos[last.player]) = 0

\* ------------------------------------------------------------------------
\* Rejected bets
\* ------------------------------------------------------------------------
\* The accounts after a call that returned r on game g and position q: the
\* runtime keeps what the instruction wrote only when it returned Ok.
Committed(g, q, r) == IF r.res = "Ok" THEN <<r.game, r.pos>> ELSE <<g, q>>

\* Calls <<bet_type, point, amount>> that must be rejected in every state: a
\* zero stake, a stake above the maximum, an unknown category, and a point or
\* sum the category does not have.
BadCalls ==
    {<<0, 0, 0>>, <<8, 4, 0>>, <<10, 0, 0>>,
     <<0, 0, MAX_BET_AMOUNT + 1>>, <<11, 0, MAX_BET_AMOUNT + 1>>,
     <<16, 0, 1>>, <<25, 4, 1>>, <<29, 0, 1>>, <<255, 0, 1>>,
     <<4, 7, 1>>, <<5, 0, 1>>, <<6, 3, 1>>, <<7, 11, 1>>, <<8, 7, 1>>,
     <<9, 5, 1>>, <<26, 7, 1>>, <<27, 1, 1>>, <<28, 13, 1>>}

\* Calls that must be rejected in the phase game g is in: a line bet after
\* the come-out, odds before a point is set.
PhaseBadCalls(g) ==
    IF is_coming_out(load_game(g))
    THEN {<<2, 4, 1>>, <<3, 4, 1>>, <<2, 0, 1>>}
    ELSE {<<0, 0, 1>>, <<1, 0, 1>>}

refund_overflows(g, q) ==
    /\ q.epoch_id # g.epoch_id
    /\ q.pending_winnings + AllStakes(q) > U64_MAX

\* Whether a sum force_settle_craps takes leaves u64.
forfeit_overflows(g, q) ==
    /\ AllStakes(q) > 0
    /\ \/ q.total_lost + AllStakes(q) > U64_MAX
       \/ g.total_collected + AllStakes(q) > U64_MAX

\* C17: a settle_craps or force_settle_craps call in which an addition would
\* leave the u64 range does not return Ok, so that nothing it wrote is kept.
C17_OverflowAborts ==
    \A p \in Players, r \in RoundIds :
        (game.created /\ pos[p].created)
        => /\ refund_overflows(game, pos[p])
              => settle_call(game, pos[p], r).res # "Ok"
           /\ forfeit_overflows(game, pos[p])
              => force_call(game, pos[p], r, slot).res # "Ok"

\* ------------------------------------------------------------------------
\* Worked payouts
\* ------------------------------------------------------------------------
\* The step is a place_craps_bet of player p that puts 100 on any-seven.
PlacesAnySeven(p) ==
    /\ nbets' = nbets + 1
    /\ pos'[p].any_seven = pos[p].any_seven + 100

\* The step is a settle_craps of player p for a roll of sum, by the full path.
SettlesRoll(p, sum) ==
    /\ last'.op = "settle" /\ last'.player = p /\ last'.path = "full"
    /\ square_to_dice_sum(Round(last'.round).square) = sum

\* Player p holds 100 on any-seven and nothing else, at a table that was
\* funded with 1000 and holds no other reservation.
AnySevenTable(p) ==
    /\ game.house_bankroll = 1000 + 100
    /\ game.reserved_payouts = 500
    /\ pos[p].any_seven = 100
    /\ AllStakes(pos[p]) = 100

\* What settle_craps does to the any-seven table on a roll of 7, leaving the
\* bankroll at b.
AnySevenSettled(p, b) ==
    /\ pos'[p].pending_winnings = pos[p].pending_winnings + 500
    /\ game'.reserved_payouts = game.reserved_payouts - 500
    /\ game'.house_bankroll = b

\* C18: from a bankroll of 1000 without reservations, a stake of 100 on
\* any-seven reserves 500; settling a roll of 7 for it adds 500 to
\* pending_winnings, takes 500 off reserved_payouts and leaves the bankroll at
\* 1000 + 100 - 500 = 600: the stake goes back to the player with the 400 won.
C18_AnySevenLeaves600 ==
    [][\A p \in Players :
        /\ PlacesAnySeven(p) => game'.reserved_payouts = game.reserved_payouts + 500
        /\ (SettlesRoll(p, 7) /\ AnySevenTable(p)) => AnySevenSettled(p, 600)]_vars

\* C18 as the specification has it: the bankroll is left at 700.
C18_AnySevenLeaves700 ==
    [][\A p \in Players :
        /\ PlacesAnySeven(p) => game'.reserved_payouts = game.reserved_payouts + 500
        /\ (SettlesRoll(p, 7) /\ AnySevenTable(p)) => AnySevenSettled(p, 700)]_vars

\* The any-seven of 100 has just been settled on a roll of 7 at the table
\* funded with 1000.
C18_Witness ==
    /\ last.op = "settle" /\ last.path = "full"
    /\ square_to_dice_sum(Round(last.round).square) = 7
    /\ pos[last.player].pending_winnings = 500
    /\ pos[last.player].total_wagered = 100
    /\ pos[last.player].any_seven = 0
    /\ game.reserved_payouts = 0
    /\ game.house_bankroll = 600

\* C19: settling a roll of 7 in the come-out for a position whose only stake
\* is a pass line bet of S adds 2S to pending_winnings and takes 2S off
\* reserved_payouts.
C19_PassLineNatural ==
    [][\A p \in Players :
        (/\ SettlesRoll(p, 7)
         /\ is_coming_out(game)
         /\ pos[p].pass_line > 0
         /\ AllStakes(pos[p]) = pos[p].pass_line)
        => /\ pos'[p].pending_winnings = pos[p].pending_winnings + 2 * pos[p].pass_line
           /\ game'.reserved_payouts = game.reserved_payouts - 2 * pos[p].pass_line]_vars

\* The ratio a place bet on point n is paid at.
PlaceRatio(n) ==
    CASE n \in {4, 10} -> <<9, 5>>
      [] n \in {5, 9} -> <<7, 5>>
      [] n \in {6, 8} -> <<7, 6>>

\* Stakes whose product with the numerator stays in u64, and leaves it.
WideStakes == {60, U64_MAX \div 2}

\* Player p holds a working place bet on point n and nothing else.
OnlyPlaceBet(p, n) ==
    /\ are_place_bets_working(pos[p])
    /\ pos[p].place_bets[point_to_index(n)] > 0
    /\ AllStakes(pos[p]) = pos[p].place_bets[point_to_index(n)]

\* What a winning stake s at ratio num:den is credited.
Credit(s, ratio) == s + (s * ratio[1]) \div ratio[2]

\* C20: a place bet of s wins when its point is rolled and is credited
\* s + floor(s * num / den) at 9:5 on 4 and 10, 7:5 on 5 and 9 and 7:6 on 6
\* and 8, 130 for 60 on 6; the product does not overflow u64.
C20_PlaceBetCredit ==
    [][/\ \A n \in {4, 5, 6, 8, 9, 10}, s \in WideStakes :
            s + calculate_payout(s, get_place_payout(n)[1], get_place_payout(n)[2])
            = Credit(s, PlaceRatio(n))
       /\ Credit(60, PlaceRatio(6)) = 130
       /\ \A p \in Players, n \in {4, 5, 6, 8, 9, 10} :
            (SettlesRoll(p, n) /\ OnlyPlaceBet(p, n))
            => /\ pos'[p].pending_winnings
                  = pos[p].pending_winnings
                    + Credit(pos[p].place_bets[point_to_index(n)], PlaceRatio(n))
               /\ pos'[p].place_bets[point_to_index(n)] = 0]_vars

\* The place bet of 60 on 6 has just been credited 130 on a roll of 6.
C20_Witness ==
    /\ last.op = "settle" /\ last.path = "full"
    /\ square_to_dice_sum(Round(last.round).square) = 6
    /\ pos[last.player].total_wagered = 60
    /\ pos[last.player].pending_winnings = 130
    /\ pos[last.player].place_bets[point_to_index(6)] = 0

\* ------------------------------------------------------------------------
\* Different doubles
\* ------------------------------------------------------------------------
\* The round after the last one position q was settled for, ending on square.
NextRound(q, square) ==
    [id |-> q.last_updated_round + 1, square |-> square, expires_at |-> 0]

\* settle_craps of position q for its next round, ending on square.
settle_roll(g, q, square) == process_settle_craps(g, q, NextRound(q, square), square)

\* The result of settling position q for rounds that end on the squares sqs,
\* one after the other; the first call that fails is the result.
RECURSIVE settle_rolls(_, _, _)
settle_rolls(g, q, sqs) ==
    IF Len(sqs) = 1 \/ settle_roll(g, q, Head(sqs)).res # "Ok"
    THEN settle_roll(g, q, Head(sqs))
    ELSE settle_rolls(settle_roll(g, q, Head(sqs)).game,
                      settle_roll(g, q, Head(sqs)).pos, Tail(sqs))

\* What a 7 pays on a different-doubles stake with n unique doubles recorded.
DoublesRatio(n) == CASE n = 3 -> 4 [] n = 4 -> 8 [] n = 5 -> 15 [] OTHER -> 0

\* What position q with a different-doubles stake is credited on square.
DoublesCredit(q, square) ==
    LET s == q.diff_doubles_bet
        d == square_to_dice(square)
        n == Cardinality(q.diff_doubles_hits)
    IN  IF d[1] + d[2] = 7
        THEN IF n >= 3 THEN s + s * DoublesRatio(n) ELSE 0
        ELSE IF d[1] = d[2] /\ Cardinality(q.diff_doubles_hits \cup {d[1] - 1}) = 6
        THEN s + s * 100
        ELSE 0

\* Whether the bet of position q is over after square.
DoublesOver(q, square) ==
    \/ square_to_dice_sum(square) = 7
    \/ /\ square_to_dice(square)[1] = square_to_dice(square)[2]
       /\ Cardinality(q.diff_doubles_hits \cup {square_to_dice(square)[1] - 1}) = 6

\* The doubles recorded for position q after square, while the bet goes on.
DoublesHits(q, square) ==
    IF square_to_dice(square)[1] = square_to_dice(square)[2]
    THEN q.diff_doubles_hits \cup {square_to_dice(square)[1] - 1}
    ELSE q.diff_doubles_hits

DoublesOutcome(q, square, r) ==
    /\ r.res = "Ok"
    /\ r.pos.pending_winnings = q.pending_winnings + DoublesCredit(q, square)
    /\ IF DoublesOver(q, square)
       THEN r.pos.diff_doubles_bet = 0 /\ r.pos.diff_doubles_hits = {}
       ELSE /\ r.pos.diff_doubles_bet = q.diff_doubles_bet
            /\ r.pos.diff_doubles_hits = DoublesHits(q, square)

\* The doubles 2-2, 4-4 and 5-5 and then 1+6.
ThreeDoublesThenSeven == <<7, 21, 28, 5>>

\* C21: for a position whose only stake is a different-doubles stake s, a 7
\* credits s + 4s, s + 8s or s + 15s for 3, 4 or 5 unique doubles recorded and
\* nothing for fewer, and clears stake and bitmask; a double is recorded, and
\* the sixth unique double credits s + 100s at once; every other roll leaves
\* the bet alone.  After 2-2, 4-4, 5-5 and then a 7, 5s has been credited.
C21_DifferentDoubles ==
    \A p \in Players :
        (/\ game.created /\ pos[p].created
         /\ pos[p].epoch_id = game.epoch_id
         /\ pos[p].diff_doubles_bet > 0
         /\ AllStakes(pos[p]) = pos[p].diff_doubles_bet)
        => /\ \A square \in 0..35 :
                DoublesOutcome(pos[p], square, settle_roll(game, pos[p], square))
           /\ pos[p].diff_doubles_hits = {}
              => /\ settle_rolls(game, pos[p], ThreeDoublesThenSeven).res = "Ok"
                 /\ settle_rolls(game, pos[p], ThreeDoublesThenSeven).pos.pending_winnings
                    = pos[p].pending_winnings + 5 * pos[p].diff_doubles_bet
                 /\ settle_rolls(game, pos[p], ThreeDoublesThenSeven).pos.diff_doubles_bet = 0
                 /\ settle_rolls(game, pos[p], ThreeDoublesThenSeven).pos.diff_doubles_hits = {}

\* A 7 has just paid a different-doubles stake 4:1 after a double was recorded
\* by an earlier settle call.
C21_Witness ==
    /\ last.op = "settle" /\ last.path = "full" /\ last.round = 1
    /\ square_to_dice_sum(Round(1).square) = 7
    /\ square_to_dice_sum(Round(0).square) # 7
    /\ <<last.player, 0>> \in settled
    /\ pos[last.player].diff_doubles_bet = 0
    /\ pos[last.player].diff_doubles_hits = {}
    /\ pos[last.player].pending_winnings = 5 * pos[last.player].total_wagered

\* ------------------------------------------------------------------------
\* Single-roll bets
\* ------------------------------------------------------------------------
SingleRollFields == {"field_bet", "any_seven", "any_craps", "yo_eleven", "aces", "twelve"}

\* The total return of a single-roll stake s in field f on a dice sum.
SingleReturn(f, s, sum) ==
    CASE f = "field_bet" -> (CASE sum \in {2, 12} -> 3 * s
                               [] sum \in {3, 4, 9, 10, 11} -> 2 * s
                               [] OTHER -> 0)
      [] f = "any_seven" -> IF sum = 7 THEN 5 * s ELSE 0
      [] f = "any_craps" -> IF sum \in {2, 3, 12} THEN 8 * s ELSE 0
      [] f = "yo_eleven" -> IF sum = 11 THEN 16 * s ELSE 0
      [] f = "aces" -> IF sum = 2 THEN 31 * s ELSE 0
      [] f = "twelve" -> IF sum = 12 THEN 31 * s ELSE 0

\* What the helper function of field f returns.
helper_return(f, s, sum) ==
    CASE f = "field_bet" -> calculate_field_payout(s, sum)
      [] f = "any_seven" -> calculate_any_seven_payout(s, sum)
      [] f = "any_craps" -> calculate_any_craps_payout(s, sum)
      [] f = "yo_eleven" -> calculate_yo_payout(s, sum)
      [] f = "aces" -> calculate_aces_payout(s, sum)
      [] f = "twelve" -> calculate_twelve_payout(s, sum)

\* What the helper functions return for all the single-roll stakes of q.
RECURSIVE helpers_total(_, _, _)
helpers_total(q, fs, sum) ==
    IF fs = {} THEN 0
    ELSE helper_return(CHOOSE f \in fs : TRUE, q[CHOOSE f \in fs : TRUE], sum)[1]
         + helpers_total(q, fs \ {CHOOSE f \in fs : TRUE}, sum)

SingleStakes == {1, 7, 100}

\* C22: the helper functions return 3s for a field stake on 2 or 12, 2s on 3,
\* 4, 9, 10 or 11 and 0 otherwise, 5s for any-seven on 7, 8s for any-craps on
\* 2, 3 or 12, 16s for yo-eleven on 11, 31s for aces on 2 and for twelve on
\* 12, and 0 on every other sum; and settle_craps credits a position that
\* holds only single-roll stakes what the helpers return, and clears them.
C22_SingleRollReturns ==
    /\ \A f \in SingleRollFields, s \in SingleStakes, sum \in 2..12 :
            helper_return(f, s, sum) = <<SingleReturn(f, s, sum), SingleReturn(f, s, sum) > 0>>
    /\ \A p \in Players :
        (/\ game.created /\ pos[p].created
         /\ pos[p].epoch_id = game.epoch_id
         /\ AllStakes(pos[p]) > 0
         /\ AllStakes(pos[p]) = StakeIn(pos[p], SingleRollFields))
        => \A square \in 0..35 :
            /\ settle_roll(game, pos[p], square).res = "Ok"
            /\ settle_roll(game, pos[p], square).pos.pending_winnings
               = pos[p].pending_winnings
                 + helpers_total(pos[p], SingleRollFields, square_to_dice_sum(square))
            /\ AllStakes(settle_roll(game, pos[p], square).pos) = 0

\* A settle call has just credited the field stake of 7 twice over on a 4.
C22_Witness ==
    /\ last.op = "settle" /\ last.path = "full"
    /\ square_to_dice_sum(Round(last.round).square) = 4
    /\ pos[last.player].total_wagered = 7
    /\ pos[last.player].field_bet = 0
    /\ pos[last.player].pending_winnings = 14

\* ------------------------------------------------------------------------
\* The dice of a square
\* ------------------------------------------------------------------------
\* C23: for every square i in 0..35, those the rounds ended on among them,
\* the dice are i div 6 + 1 and i mod 6 + 1, both in 1..6, their sum is the
\* dice sum and lies in 2..12, and the square is a hardway exactly when the
\* two dice are equal.
C23_SquareToDice ==
    \A i \in (0..(BOARD_SIZE - 1)) \cup {Round(r).square : r \in RoundIds} :
        /\ square_to_dice(i) = <<(i \div 6) + 1, (i % 6) + 1>>
        /\ square_to_dice(i)[1] \in 1..6
        /\ square_to_dice(i)[2] \in 1..6
        /\ square_to_dice_sum(i) = square_to_dice(i)[1] + square_to_dice(i)[2]
        /\ square_to_dice_sum(i) \in 2..12
        /\ is_hardway(i) <=> (square_to_dice(i)[1] = square_to_dice(i)[2])

\* A settle call has just resolved a round that ended on a hardway square,
\* and one that did not is finalized as well.
C23_Witness ==
    /\ last.op = "settle"
    /\ is_hardway(Round(last.round).square)
    /\ square_to_dice(Round(last.round).square) = <<4, 4>>
    /\ \E r \in RoundIds : ~is_hardway(Round(r).square)

\* ------------------------------------------------------------------------
\* Releases larger than the reservation
\* ------------------------------------------------------------------------
\* What a full settlement of position q for round r asks to release in all:
\* what it takes off a reservation too large to run out.
settle_releases(g, q, r) ==
    U64_MAX - settle_bets([g EXCEPT !.reserved_payouts = U64_MAX], q,
                          Round(r), Round(r).square).g.reserved_payouts

\* C24: reserved_payouts is never negative; a settle_craps or a
\* force_settle_craps call that releases more than reserved_payouts holds
\* succeeds and leaves it at exactly 0.
C24_ReleaseClampsAtZero ==
    /\ game.reserved_payouts >= 0
    /\ \A p \in Players, r \in RoundIds :
        (game.created /\ pos[p].created)
        => /\ (/\ settle_path(game, pos[p]) = "full"
               /\ ~already_settled(pos[p], r)
               /\ settle_releases(game, pos[p], r) > game.reserved_payouts)
              => /\ settle_call(game, pos[p], r).res = "Ok"
                 /\ settle_call(game, pos[p], r).game.reserved_payouts = 0
           /\ (/\ force_has_any_bets(pos[p])
               /\ slot > Round(r).expires_at
               /\ 2 * total_forfeited(pos[p]) > game.reserved_payouts)
              => /\ force_call(game, pos[p], r, slot).res = "Ok"
                 /\ force_call(game, pos[p], r, slot).game.reserved_payouts = 0

\* A settle call has just paid a pass line stake and its odds, releasing 5
\* where 3 had been reserved, and reserved_payouts is 0.
C24_Witness ==
    /\ last.op = "settle" /\ last.path = "full"
    /\ game.reserved_payouts = 0
    /\ pos[last.player].total_wagered = 2
    /\ pos[last.player].total_won = 5
    /\ pos[last.player].pass_odds = 0

\* ------------------------------------------------------------------------
\* Line bets
\* ------------------------------------------------------------------------
\* A position that holds pass line, don't pass and odds stakes and no other.
OnlyLineStakes(q) ==
    AllStakes(q) = q.pass_line + q.dont_pass + q.pass_odds + q.dont_pass_odds

\* What a come-out roll credits to the line stakes: pass line 1:1 on 7 or
\* 11, don't pass 1:1 on 2 or 3 and its stake back on 12.
ComeOutCredit(q, sum) ==
    IF is_natural(sum) THEN 2 * q.pass_line
    ELSE IF sum = 12 THEN q.dont_pass
    ELSE IF is_craps(sum) THEN 2 * q.dont_pass
    ELSE 0

ComeOutLost(q, sum) ==
    IF is_natural(sum) THEN q.dont_pass
    ELSE IF is_craps(sum) THEN q.pass_line
    ELSE 0

\* C25: a full settlement in the come-out pays the pass line 1:1 on 7 or 11
\* and takes the don't pass stake, takes the pass line stake on 2, 3 or 12
\* and pays don't pass 1:1 on 2 or 3 and its stake back on 12, and on 4, 5, 6,
\* 8, 9 or 10 sets the point to the sum, leaves the come-out and carries both
\* line stakes; epoch_id stays in every case.
C25_ComeOutRoll ==
    \A p \in Players, square \in 0..(BOARD_SIZE - 1) :
        (/\ game.created /\ pos[p].created
         /\ is_coming_out(game)
         /\ settle_path(game, pos[p]) = "full")
        => LET r == settle_roll(game, pos[p], square)
               sum == square_to_dice_sum(square)
               q == pos[p]
           IN  /\ r.res = "Ok"
               /\ r.game.epoch_id = game.epoch_id
               /\ r.pos.epoch_id = q.epoch_id
               /\ IF is_point_number(sum)
                  THEN /\ r.game.point = sum
                       /\ r.game.is_come_out = 0
                       /\ r.pos.pass_line = q.pass_line
                       /\ r.pos.dont_pass = q.dont_pass
                  ELSE /\ r.game.point = 0
                       /\ r.game.is_come_out = 1
                       /\ r.pos.pass_line = 0
                       /\ r.pos.dont_pass = 0
               /\ OnlyLineStakes(q)
                  => /\ r.pos.pending_winnings
                            = q.pending_winnings + ComeOutCredit(q, sum)
                     /\ r.pos.total_lost = q.total_lost + ComeOutLost(q, sum)
                     /\ r.game.house_bankroll
                            = game.house_bankroll + ComeOutLost(q, sum)
                                - ComeOutCredit(q, sum)

\* A come-out 12 has just been settled for a position that held both line
\* stakes: the pass line stake is lost and the don't pass stake came back.
C25_Witness ==
    /\ last.op = "settle" /\ last.path = "full"
    /\ is_coming_out(game)
    /\ square_to_dice_sum(Round(last.round).square) = 12
    /\ pos[last.player].pending_winnings = 10
    /\ pos[last.player].total_lost = 10
    /\ pos[last.player].pass_line = 0 /\ pos[last.player].dont_pass = 0

\* True odds: 2:1 on 4 and 10, 3:2 on 5 and 9, 6:5 on 6 and 8.
TrueOdds(n) ==
    CASE n \in {4, 10} -> <<2, 1>>
      [] n \in {5, 9} -> <<3, 2>>
      [] n \in {6, 8} -> <<6, 5>>

\* What is credited for odds stake s: nothing where there is no stake.
OddsCredit(s, ratio) == IF s = 0 THEN 0 ELSE Credit(s, ratio)

\* C26: a full settlement in point phase of a sum equal to the point pays the
\* pass line 1:1 and its odds at true odds, takes don't pass and its odds,
\* and returns to the come-out with point 0 in the same epoch; a sum that is
\* neither the point nor 7 leaves point, phase, epoch_id and the four line
\* stakes as they were.
C26_PointPhaseRoll ==
    \A p \in Players, square \in 0..(BOARD_SIZE - 1) :
        (/\ game.created /\ pos[p].created
         /\ ~is_coming_out(game)
         /\ settle_path(game, pos[p]) = "full")
        => LET r == settle_roll(game, pos[p], square)
               sum == square_to_dice_sum(square)
               q == pos[p]
           IN  /\ r.res = "Ok"
               /\ sum = game.point
                  => /\ r.game.point = 0
                     /\ r.game.is_come_out = 1
                     /\ r.game.epoch_id = game.epoch_id
                     /\ r.pos.epoch_id = q.epoch_id
                     /\ r.pos.pass_line = 0 /\ r.pos.pass_odds = 0
                     /\ r.pos.dont_pass = 0 /\ r.pos.dont_pass_odds = 0
                     /\ OnlyLineStakes(q)
                        => /\ r.pos.pending_winnings
                                = q.pending_winnings + 2 * q.pass_line
                                  + OddsCredit(q.pass_odds, TrueOdds(game.point))
                           /\ r.pos.total_lost
                                = q.total_lost + q.dont_pass + q.dont_pass_odds
               /\ (sum # game.point /\ sum # 7)
                  => /\ r.game.point = game.point
                     /\ r.game.is_come_out = game.is_come_out
                     /\ r.game.epoch_id = game.epoch_id
                     /\ r.pos.pass_line = q.pass_line
                     /\ r.pos.pass_odds = q.pass_odds
                     /\ r.pos.dont_pass = q.dont_pass
                     /\ r.pos.dont_pass_odds = q.dont_pass_odds

\* The point 6 has just been made for a position that held a pass line stake
\* of 10 with odds of 30: 20 + 30 + 36 were credited.
C26_Witness ==
    /\ last.op = "settle" /\ last.path = "full"
    /\ square_to_dice_sum(Round(last.round).square) = 6
    /\ is_coming_out(game)
    /\ pos[last.player].pending_winnings = 86
    /\ pos[last.player].total_lost = 0

\* ------------------------------------------------------------------------
\* Admission of bets
\* ------------------------------------------------------------------------
TryTypes == 0..29
TryPoints == 0..13
PointNumbers == {4, 5, 6, 8, 9, 10}

\* Whether a request for category bet_type on point (or sum) may be recorded
\* on position q of game g: line bets in the come-out, odds on an
\* established point with their base stake held, come, don't come and place
\* on a point number, hardways on 4, 6, 8, 10, yes and no on a sum other than
\* 7, next on a sum, the single-roll categories always.
PlaceAllowed(g, q, bet_type, point) ==
    CASE bet_type \in {0, 1} -> is_coming_out(g)
      [] bet_type = 2 -> has_point(g) /\ q.pass_line > 0
      [] bet_type = 3 -> has_point(g) /\ q.dont_pass > 0
      [] bet_type \in {4, 5, 8} -> point \in PointNumbers
      [] bet_type = 6 -> /\ has_point(g) /\ point \in PointNumbers
                         /\ q.come_bets[point_to_index(point)] > 0
      [] bet_type = 7 -> /\ has_point(g) /\ point \in PointNumbers
                         /\ q.dont_come_bets[point_to_index(point)] > 0
      [] bet_type = 9 -> point \in {4, 6, 8, 10}
      [] bet_type \in 10..15 -> TRUE
      [] bet_type \in {26, 27} -> point \in (2..12) \ {7}
      [] bet_type = 28 -> point \in 2..12
      [] OTHER -> FALSE

\* C27: place_craps_bet records a stake only for a request that is allowed
\* in the phase of the game and on the stakes the position holds; every
\* other request is rejected.
C27_PlaceBetAdmission ==
    \A p \in Players, bet_type \in TryTypes, point \in TryPoints :
        process_place_craps_bet(game, pos[p], bet_type, point, 1).res = "Ok"
        => PlaceAllowed(load_game(game), pos[p], bet_type, point)

\* ------------------------------------------------------------------------
\* What a recorded bet changes
\* ------------------------------------------------------------------------
\* The slot a category and its point or sum select.
SlotOf(bet_type, point) ==
    CASE bet_type = 0 -> <<"pass_line", 0>>
      [] bet_type = 1 -> <<"dont_pass", 0>>
      [] bet_type = 2 -> <<"pass_odds", 0>>
      [] bet_type = 3 -> <<"dont_pass_odds", 0>>
      [] bet_type = 4 -> <<"come_bets", point_to_index(point)>>
      [] bet_type = 5 -> <<"dont_come_bets", point_to_index(point)>>
      [] bet_type = 6 -> <<"come_odds", point_to_index(point)>>
      [] bet_type = 7 -> <<"dont_come_odds", point_to_index(point)>>
      [] bet_type = 8 -> <<"place_bets", point_to_index(point)>>
      [] bet_type = 9 -> <<"hardways", hardway_index(point)>>
      [] bet_type = 10 -> <<"field_bet", 0>>
      [] bet_type = 11 -> <<"any_seven", 0>>
      [] bet_type = 12 -> <<"any_craps", 0>>
      [] bet_type = 13 -> <<"yo_eleven", 0>>
      [] bet_type = 14 -> <<"aces", 0>>
      [] bet_type = 15 -> <<"twelve", 0>>
      [] bet_type = 26 -> <<"yes_bets", sum_to_index(point)>>
      [] bet_type = 27 -> <<"no_bets", sum_to_index(point)>>
      [] bet_type = 28 -> <<"next_bets", sum_to_index(point)>>

FrameBets == TryBets \cup {<<4, 5>>, <<5, 9>>, <<9, 6>>, <<11, 0>>, <<26, 4>>,
                           <<27, 10>>, <<28, 2>>}

\* Position q with amount more in one slot and in total_wagered; the working
\* flag of the place bets goes with their slot.
WithStake(q, s, amount, working) ==
    [SetStake(q, s, Stake(q, s) + amount)
        EXCEPT !.total_wagered = @ + amount, !.place_working = working]

\* C28: a successful place_craps_bet of amount on a position of the current
\* epoch adds amount to the slot of the category, to total_wagered and to
\* house_bankroll, adds the worst-case payout of the bet to reserved_payouts,
\* and changes no other field of the position or of the game.
C28_PlaceBetFrame ==
    \A p \in Players, bet \in FrameBets, amount \in TryAmounts :
        LET r == process_place_craps_bet(game, pos[p], bet[1], bet[2], amount)
        IN  (/\ game.created /\ pos[p].created
             /\ pos[p].epoch_id = game.epoch_id
             /\ r.res = "Ok")
            => /\ r.pos = WithStake(pos[p], SlotOf(bet[1], bet[2]), amount,
                                    r.pos.place_working)
               /\ r.game = [game EXCEPT
                              !.house_bankroll = @ + amount,
                              !.reserved_payouts =
                                  @ + worst_case_payout(game, bet[1], bet[2], amount)]
               /\ r.transfer = amount

\* ------------------------------------------------------------------------
\* Epoch and phase
\* ------------------------------------------------------------------------
PhaseOf(g) == <<g.epoch_id, g.point, g.is_come_out>>

\* C29: once the game exists, no call lowers epoch_id or raises it by more
\* than 1, and epoch_id, point and is_come_out change only in a settle_craps
\* call that runs the full settlement: place_craps_bet, the two claims,
\* force_settle_craps, fund_craps_house and the stale-epoch and empty-position
\* paths of settle_craps leave the three as they are.
C29_OnlyFullSettleMovesPhase ==
    [][game.created
       => /\ game'.epoch_id >= game.epoch_id
          /\ game'.epoch_id <= game.epoch_id + 1
          /\ PhaseOf(game') # PhaseOf(game)
             => (last'.op = "settle" /\ last'.path = "full")]_vars

\* A full settle has just started epoch 2.
C29_Witness ==
    /\ last.op = "settle" /\ last.path = "full"
    /\ game.epoch_id = 2 /\ game.point = 0 /\ game.is_come_out = 1

\* ------------------------------------------------------------------------
\* Come bets
\* ------------------------------------------------------------------------
\* Laying odds: 1:2 on 4 and 10, 2:3 on 5 and 9, 5:6 on 6 and 8.
InverseOdds(n) == <<TrueOdds(n)[2], TrueOdds(n)[1]>>

ComeStakes(q, i) ==
    q.come_bets[i] + q.come_odds[i] + q.dont_come_bets[i] + q.dont_come_odds[i]

\* The line position that holds on the pass line what q holds on the come
\* side of index i, and a game on that point.
AsLinePosition(q, i) ==
    [q EXCEPT !.pass_line = q.come_bets[i], !.pass_odds = q.come_odds[i],
              !.dont_pass = q.dont_come_bets[i],
              !.dont_pass_odds = q.dont_come_odds[i],
              !.come_bets[i] = 0, !.come_odds[i] = 0,
              !.dont_come_bets[i] = 0, !.dont_come_odds[i] = 0]

OnPoint(g, n) == [g EXCEPT !.point = n, !.is_come_out = 0]

\* C30: come and don't come stakes with odds on point n are resolved as pass
\* line and don't pass stakes with odds are on point n: when n is rolled come
\* is paid 1:1 and its odds at true odds, don't come and its odds are lost; on
\* 7 come and its odds are lost, don't come is paid 1:1 and its odds at the
\* inverse true odds; the credit and the loss are those of the line position
\* with the same stakes.
C30_ComeLikeLine ==
    \A p \in Players, i \in PointIdx, square \in 0..(BOARD_SIZE - 1) :
        LET q == pos[p]
            n == index_to_point(i)
            sum == square_to_dice_sum(square)
            r == settle_roll(game, q, square)
            l == settle_roll(OnPoint(game, n), AsLinePosition(q, i), square)
        IN  (/\ game.created /\ q.created
             /\ settle_path(game, q) = "full"
             /\ ComeStakes(q, i) > 0 /\ AllStakes(q) = ComeStakes(q, i)
             /\ sum \in {n, 7})
            => /\ r.res = "Ok"
               /\ ComeStakes(r.pos, i) = 0
               /\ r.pos.pending_winnings - q.pending_winnings
                    = IF sum = n
                      THEN 2 * q.come_bets[i] + OddsCredit(q.come_odds[i], TrueOdds(n))
                      ELSE 2 * q.dont_come_bets[i]
                           + OddsCredit(q.dont_come_odds[i], InverseOdds(n))
               /\ r.pos.total_lost - q.total_lost
                    = IF sum = n THEN q.dont_come_bets[i] + q.dont_come_odds[i]
                      ELSE q.come_bets[i] + q.come_odds[i]
               /\ r.pos.pending_winnings = l.pos.pending_winnings
               /\ r.pos.total_lost = l.pos.total_lost

\* ------------------------------------------------------------------------
\* A bet on a position of an older epoch
\* ------------------------------------------------------------------------
\* C31: a successful place_craps_bet on a position whose epoch_id is not the
\* game's leaves the position in the game's epoch with the new bet as its
\* only stake, total_wagered equal to it, total_won and total_lost 0, and
\* pending_winnings and unpaid_debt as they were: the stakes it held are
\* wiped and nothing is credited for them.
C31_StaleBetResets ==
    \A p \in Players, bet \in FrameBets, amount \in TryAmounts :
        LET q == pos[p]
            r == process_place_craps_bet(game, q, bet[1], bet[2], amount)
        IN  (/\ game.created /\ q.created
             /\ q.epoch_id # game.epoch_id
             /\ r.res = "Ok")
            => /\ r.pos.epoch_id = game.epoch_id
               /\ AllStakes(r.pos) = amount
               /\ Stake(r.pos, SlotOf(bet[1], bet[2])) = amount
               /\ r.pos.total_wagered = amount
               /\ r.pos.total_won = 0 /\ r.pos.total_lost = 0
               /\ r.pos.pending_winnings = q.pending_winnings
               /\ r.pos.unpaid_debt = q.unpaid_debt

\* Player 1 placed one bet and lost it on the seven-out that started epoch
\* 2; player 2 placed the two other bets and never settled, and holds only
\* the one placed in epoch 2: the stake of epoch 1 was wiped by the reset.
C31_Witness ==
    /\ game.epoch_id = 2 /\ nbets = 3
    /\ game.total_collected = 1 /\ game.total_payouts = 0
    /\ pos[2].created /\ pos[2].epoch_id = 2
    /\ AllStakes(pos[2]) = 1 /\ pos[2].total_wagered = 1
    /\ pos[2].pending_winnings = 0
    /\ ~\E r \in RoundIds : <<2, r>> \in settled

\* ------------------------------------------------------------------------
\* Reservations of bets that are gone
\* ------------------------------------------------------------------------
NoStakesLeft == \A p \in Players : AllStakes(pos[p]) = 0

\* C32: whenever no position holds a stake, reserved_payouts is 0.
C32_NothingStaysReserved == NoStakesLeft => game.reserved_payouts = 0

\* ------------------------------------------------------------------------
\* Paying a debt off
\* ------------------------------------------------------------------------
\* C33: a claim_craps_debt call on a position that is owed a debt succeeds
\* and leaves unpaid_debt no larger; with house_bankroll at least the debt it
\* leaves no debt at all, so that repeated calls pay the debt off once the
\* house is funded.
C33_DebtIsPaidOff ==
    \A p \in Players :
        (game.created /\ pos[p].created /\ pos[p].unpaid_debt > 0)
        => LET r == process_claim_craps_debt(game, pos[p], vault)
           IN  /\ r.res = "Ok"
               /\ r.pos.unpaid_debt <= pos[p].unpaid_debt
               /\ game.house_bankroll >= pos[p].unpaid_debt
                  => r.pos.unpaid_debt = 0

\* ------------------------------------------------------------------------
\* One phase transition per round
\* ------------------------------------------------------------------------
\* C34: when two positions settle the same round one after the other, the
\* game's line phase (epoch_id, point, is_come_out) moves in at most one of
\* the two calls: the transition of a round id is applied once.
C34_PhaseMovesOncePerRound ==
    \A p \in Players, q \in Players, r \in RoundIds :
        LET first == settle_call(game, pos[p], r)
            second == settle_call(first.game, pos[q], r)
        IN  (/\ p # q
             /\ game.created /\ pos[p].created /\ pos[q].created
             /\ first.res = "Ok" /\ second.res = "Ok")
            => ~(/\ PhaseOf(first.game) # PhaseOf(game)
                 /\ PhaseOf(second.game) # PhaseOf(first.game))

\* ------------------------------------------------------------------------
\* Odds need their base stake
\* ------------------------------------------------------------------------
\* C35: in every position, pass_odds > 0 only with pass_line > 0,
\* dont_pass_odds > 0 only with dont_pass > 0, and per point index
\* come_odds > 0 only with come_bets > 0 and dont_come_odds > 0 only with
\* dont_come_bets > 0.
C35_OddsHaveTheirBase ==
    \A p \in Players :
        LET q == pos[p]
        IN  /\ q.pass_odds > 0 => q.pass_line > 0
            /\ q.dont_pass_odds > 0 => q.dont_pass > 0
            /\ \A i \in DOMAIN q.come_odds :
                   /\ q.come_odds[i] > 0 => q.come_bets[i] > 0
                   /\ q.dont_come_odds[i] > 0 => q.dont_come_bets[i] > 0

\* ------------------------------------------------------------------------
\* The vault backs the bankroll
\* ------------------------------------------------------------------------
\* The pending winnings of players 1..n together.
RECURSIVE PendingUpTo(_)
PendingUpTo(n) == IF n = 0 THEN 0 ELSE pos[n].pending_winnings + PendingUpTo(n - 1)

\* C36: the vault holds at least house_bankroll plus the pending winnings of
\* all positions.
C36_VaultBacksBankroll ==
    vault >= game.house_bankroll + PendingUpTo(NumPlayers)

\* ------------------------------------------------------------------------
\* Bets and the rounds that resolve them
\* ------------------------------------------------------------------------
\* C37: a bet placed now is not resolved against a round that is already
\* finalized: a settle_craps call for such a round that follows the placement
\* is rejected or leaves the stake in its slot.
C37_OnlyUnknownOutcomes ==
    \A p \in Players, bet \in TryBets, amount \in TryAmounts, r \in RoundIds :
        LET placed == process_place_craps_bet(game, pos[p], bet[1], bet[2], amount)
            settle == settle_call(placed.game, placed.pos, r)
            slot_of_bet == SlotOf(bet[1], bet[2])
        IN  (game.created /\ placed.res = "Ok" /\ settle.res = "Ok")
            => Stake(settle.pos, slot_of_bet) = Stake(placed.pos, slot_of_bet)

\* ------------------------------------------------------------------------
\* Credits and reservations
\* ------------------------------------------------------------------------
\* What a call that led from position q to position q2 credited the player.
Credited(q, q2) ==
    (q2.pending_winnings - q.pending_winnings) + (q2.unpaid_debt - q.unpaid_debt)

\* C38: when a position holds its whole stake in one slot, what a settle call
\* credits for it never exceeds what the place_craps_bet calls that built the
\* stake added to reserved_payouts.
C38_CreditWithinReservation ==
    \A p \in Players, r \in RoundIds :
        LET q == pos[p]
            res == settle_call(game, q, r)
        IN  (/\ res.res = "Ok"
             /\ settle_path(game, q) = "full")
            => \A s \in DOMAIN resv[p] :
                   AllStakes(q) = Stake(q, s)
                   => Credited(q, res.pos) <= resv[p][s]

\* ------------------------------------------------------------------------
\* Side bets
\* ------------------------------------------------------------------------
SideFields == {"bonus_small", "bonus_tall", "bonus_all", "fire_bet",
               "diff_doubles_bet", "ride_the_line_bet", "mugsy_bet",
               "hot_hand_bet", "replay_bet", "fielders_choice"}

SideStake(q) == StakeIn(q, SideFields)

SideTypes == 16..25

\* C39: no position holds a bonus (small, tall, all), fire, different-doubles,
\* ride-the-line, mugsy, hot-hand, replay or fielder's-choice stake, and no
\* place_craps_bet call of a bet type from 16 to 25 is accepted.
C39_NoSideStakes ==
    \A p \in Players :
        /\ SideStake(pos[p]) = 0
        /\ \A bet_type \in SideTypes, point \in {0, 4} :
               game.created
               => process_place_craps_bet(game, pos[p], bet_type, point, 1).res # "Ok"

\* A player who holds a stake, at a table that could cover one more unit,
\* is refused a fire bet.
C39_Witness ==
    \E p \in Players :
        /\ AllStakes(pos[p]) > 0
        /\ game.house_bankroll - game.reserved_payouts >= 1
        /\ process_place_craps_bet(game, pos[p], 16, 0, 1).res = "InvalidBetType"

\* ------------------------------------------------------------------------
\* What resets and forfeits leave alone
\* ------------------------------------------------------------------------
\* Position q2 is owed no less than position q, in winnings and in debt.
OwedNoLess(q, q2) ==
    /\ q2.pending_winnings >= q.pending_winnings
    /\ q2.unpaid_debt >= q.unpaid_debt

\* C40: a settle_craps call that moves the position to another epoch (the
\* seven-out reset and the stale-epoch reset), a place_craps_bet call on a
\* position of a stale epoch and a force_settle_craps call never lower the
\* position's pending_winnings or unpaid_debt, whether or not the position is
\* owed a debt.
C40_ResetsKeepWhatIsOwed ==
    \A p \in Players : \A d \in TryDebts(pos[p]) :
        LET q == [pos[p] EXCEPT !.unpaid_debt = d]
        IN  (game.created /\ q.created)
            => /\ \A r \in RoundIds :
                      LET res == settle_call(game, q, r)
                      IN  (res.res = "Ok" /\ res.pos.epoch_id # q.epoch_id)
                          => OwedNoLess(q, res.pos)
               /\ \A bet \in TryBets :
                      LET res == process_place_craps_bet(game, q, bet[1], bet[2], 1)
                      IN  (res.res = "Ok" /\ q.epoch_id # game.epoch_id)
                          => OwedNoLess(q, res.pos)
               /\ \A r \in RoundIds, t \in 0..MaxSlot :
                      LET res == force_call(game, q, r, t)
                      IN  res.res = "Ok" => OwedNoLess(q, res.pos)

\* A seven-out settle has just reset a position that was owed winnings from
\* an earlier roll: the winnings are still pending after the reset.
C40_Witness ==
    /\ last.op = "settle" /\ last.path = "full"
    /\ game.epoch_id = 2
    /\ pos[last.player].epoch_id = 2
    /\ pos[last.player].total_won = 0
    /\ pos[last.player].pending_winnings > 0
====
